---- MODULE Spec2Model ----
(***************************************************************************)
(* Job execution engine of citadel: one Job record of the store, the       *)
(* threads that run it (run_backup_job, mount_archive, unmount_archive,    *)
(* and run_borg_command of the first generation of the application), the   *)
(* external process each of them owns, and the cancel request handlers.    *)
(*                                                                         *)
(* The store holds the committed row.  Every thread works on its own       *)
(* SQLAlchemy session: an attribute it reads is the value loaded when the  *)
(* session last fetched the row, and a commit writes the attributes the    *)
(* thread assigned, whatever the row holds by then.                        *)
(*                                                                         *)
(* Spec is the job engine.  The other specifications each run one          *)
(* component with the rest of the state at rest: FsSpec the mount table    *)
(* check, ReaperSpec the search for orphaned mounts and their unmount      *)
(* jobs, SchedSpec the cleanup schedule, PollSpec the job status handlers  *)
(* with a polling client, PassSpec two runs of a job that differ in the    *)
(* passphrase of the repository, ForceSpec the forced unmount of every     *)
(* mount below the mount base directory, SizeSpec the parsers of size      *)
(* tokens, StatsSpec the extractors of the statistics of an output,        *)
(* PruneSpec a scheduled backup with its prune job,                        *)
(* TagSpec the severity prefix of a line of the error stream, MountSpec    *)
(* one mount job with a process that outlasts the poll loop.               *)
(***************************************************************************)
EXTENDS Integers, Sequences, FiniteSets, TLC

(* Bounds of the model *)
MaxOut == 1
MaxCancel == 2
MaxMountOut == 10

(* The threads that may be started as runner of the job *)
Runners == {"r1", "r2"}

Terminal == {"success", "failed", "cancelled"}
CommandKinds == {"create", "list", "prune"}
MountKinds == {"mount", "unmount"}

(* Lines a borg process can print.  A statistics block is one entry; its   *)
(* name says what the extractors do with it: "stats_ok" parses, in         *)
(* "stats_minutes" the Duration line reads "3 minutes 45.00 seconds", in   *)
(* "stats_zero" the row reads "This archive: 0 B 0 B 0 B".                 *)
StatsBlocks == {"stats_ok", "stats_minutes", "stats_zero"}
ProcessLines == {"line"} \cup StatsBlocks

(* Lines a borg mount process can print: "error_line" contains "error" *)
MountLines == {"line", "error_line"}

Streams == {"stdout", "stderr"}

(* Notes the executors and the cancel handlers write into log_output *)
TimeoutNote == "Command execution timed out after 5 minutes"
CancelNote == "[Job was cancelled by user]"
ErrorNote == "Error: exception"

NoMetadata ==
  [stats |-> "none", stats_error |-> FALSE, archives |-> FALSE,
   mount_point |-> FALSE, mount_pid |-> FALSE, mount_status |-> "none"]

(* A thread: pc is its position, proc the process it started, pipe what   *)
(* the process has printed and nobody has read, output / exit_code / i /   *)
(* metadata its local variables, job_log what its session holds as         *)
(* job.log_output, pid_gone whether os.kill found no process for the pid   *)
(* of the metadata.                                                        *)
IdleRunner ==
  [pc |-> "idle", proc |-> "none", pipe |-> <<>>, output |-> <<>>,
   exit_code |-> 0, timed_out |-> FALSE, i |-> 0, pid_gone |-> FALSE,
   job_log |-> <<>>, metadata |-> NoMetadata]

VARIABLES
  engine,        \* "citadel" (citadel/backup) or "legacy" (backup.py)
  job_type,      \* Job.job_type
  status,        \* Job.status, committed
  completed_at,  \* Job.completed_at, committed: "null" or "time"
  log_output,    \* Job.log_output, committed: the sequence of its lines
  job_metadata,  \* Job.job_metadata, committed
  runner,        \* per thread: position, owned process, session view
  cancel,        \* the cancel request handler
  target,        \* the mount an unmount job refers to: its process, its
                 \* mount table entry, and the row of the mount job
  pipes,         \* run_borg_command: unread lines of process.stdout / stderr
  printed,       \* run_borg_command: what the process has printed so far
  reader,        \* run_borg_command: the two read_stream threads
  dirs,          \* the file system: the paths that exist
  mtab,          \* the mount table: the paths that are mount points
  checked,       \* the last call of check_mount_status: path and result
  forced,        \* the last call of force_unmount_all: base_dir and results
  mjobs,         \* the mount jobs of the store, by job id
  ujobs,         \* the unmount jobs unmount_orphaned has added to the store
  called,        \* the last call of the mount management and what it returned
  clock,         \* minutes since the application was created
  mount_scheduler, \* the scheduler of mount_scheduler.py and its two jobs
  runs,          \* how often each job of the scheduler has run the cleanup
  schedule,      \* a backup schedule: its run, its thread and its prune job
  answer,        \* the last response of the job status handler
  received,      \* what a polling client has put together from the responses
  repository,    \* the repository of two runs of one job: encryption and key
  pair,          \* the two runs, which differ in the stored passphrase only
  sized,         \* the last call of a size parser: token and result
  extracted,     \* the last call of a stats extractor: output and result
  tagged         \* the last line read_stream has formatted: line and result

job_vars == <<engine, job_type, status, completed_at, log_output, job_metadata,
              runner, cancel, target, pipes, printed, reader>>

fs_vars == <<dirs, mtab, checked, forced>>

(* What the actions of the job engine leave alone *)
reaper_vars == <<mjobs, ujobs, called>>

sched_vars == <<clock, mount_scheduler, runs, schedule>>

poll_vars == <<answer, received>>

pass_vars == <<repository, pair>>

stats_vars == <<sized, extracted, tagged>>

aux_vars == <<fs_vars, reaper_vars, sched_vars, poll_vars, pass_vars, stats_vars>>

vars == <<job_vars, aux_vars>>

legacy_vars == <<pipes, printed, reader>>

IsPrefix(s, t) == Len(s) <= Len(t) /\ SubSeq(t, 1, Len(s)) = s

Contains(s, x) == \E i \in 1..Len(s) : s[i] = x

(* if output: a Python string is true when it is not empty *)
Truthy(s) == Len(s) > 0


(***************************************************************************)
(* Stats extraction, citadel/backup/utils.py.  Everything after the search *)
(* for the delimiter runs inside try/except blocks of the function, so no  *)
(* block makes it raise; the value is the block it parsed, or the empty    *)
(* dictionary when the output has no delimiter.                            *)
(***************************************************************************)
FirstStatsBlock(out) ==
  LET idx == {i \in 1..Len(out) : out[i] \in StatsBlocks}
  IN  IF idx = {} THEN "empty"
      ELSE out[CHOOSE i \in idx : \A k \in idx : i <= k]

extract_stats_from_output(out) ==
  [raised |-> FALSE, stats |-> FirstStatsBlock(out)]

(***************************************************************************)
(* The mock branch of _run_backup_job_thread: output and exit code by job  *)
(* type.  The create output has "Duration: 3 minutes 45.00 seconds".       *)
(***************************************************************************)
MockOutput(kind) ==
  CASE kind = "create" -> <<"stats_minutes">>
    [] kind = "list"   -> <<"line">>
    [] kind = "prune"  -> <<"stats_ok">>
    [] OTHER           -> <<"line">>

MockExitCode(kind) == IF kind \in CommandKinds THEN 0 ELSE 1

(* The caller's next thread: threads are taken in the order r1, r2 *)
FreeRunner(r) ==
  /\ runner[r].pc = "idle"
  /\ r = "r2" => runner["r1"].pc # "idle"

(* run_backup_job: sets the status and starts the thread, whatever the     *)
(* status was.                                                             *)
run_backup_job(r) ==
  /\ engine = "citadel" /\ job_type \in CommandKinds
  /\ FreeRunner(r)
  /\ status' = "running"
  /\ runner' = [runner EXCEPT ![r].pc = "load"]
  /\ UNCHANGED <<aux_vars, engine, job_type, completed_at, log_output, job_metadata, cancel, target, legacy_vars>>

(* _run_backup_job_thread, up to the try: the thread loads the job into    *)
(* its session and returns if it is not running; job.repository is the     *)
(* repository the job was created for.                                     *)
ThreadMayRun(s) == s = "running"

run_backup_job_thread_load(r) ==
  /\ runner[r].pc = "load"
  /\ runner' = [runner EXCEPT
       ![r].pc = IF ThreadMayRun(status) THEN "exec" ELSE "done",
       ![r].job_log = log_output,
       ![r].metadata = job_metadata]
  /\ UNCHANGED <<aux_vars, engine, job_type, status, completed_at, log_output, job_metadata, cancel, target, legacy_vars>>

(* The command is built and either the mock branch produces the output or  *)
(* subprocess.Popen starts borg; Popen can raise (OSError).                *)
run_backup_job_thread_exec(r) ==
  /\ runner[r].pc = "exec"
  /\ \E how \in {"mock", "spawned", "raised"} :
       runner' = [runner EXCEPT
         ![r].pc = CASE how = "mock" -> "finalize"
                     [] how = "spawned" -> "communicate"
                     [] OTHER -> "except",
         ![r].proc = IF how = "spawned" THEN "alive" ELSE "none",
         ![r].output = IF how = "mock" THEN MockOutput(job_type) ELSE <<>>,
         ![r].pipe = <<>>,
         ![r].exit_code = IF how = "mock" THEN MockExitCode(job_type) ELSE 0]
  /\ UNCHANGED <<aux_vars, engine, job_type, status, completed_at, log_output, job_metadata, cancel, target, legacy_vars>>

(* process.communicate(timeout=300) returns once the process has exited *)
run_backup_job_thread_communicate(r) ==
  /\ runner[r].pc = "communicate" /\ runner[r].proc = "exited"
  /\ runner' = [runner EXCEPT ![r].pc = "finalize", ![r].output = runner[r].pipe,
                              ![r].pipe = <<>>]
  /\ UNCHANGED <<aux_vars, engine, job_type, status, completed_at, log_output, job_metadata, cancel, target, legacy_vars>>

(* subprocess.TimeoutExpired: the process is killed, what it printed so    *)
(* far is the output and exit_code is -1.                                  *)
run_backup_job_thread_timeout(r) ==
  /\ runner[r].pc = "communicate" /\ runner[r].proc = "alive"
  /\ runner' = [runner EXCEPT ![r].pc = "finalize", ![r].proc = "killed",
                              ![r].output = runner[r].pipe, ![r].pipe = <<>>,
                              ![r].exit_code = -1, ![r].timed_out = TRUE]
  /\ UNCHANGED <<aux_vars, engine, job_type, status, completed_at, log_output, job_metadata, cancel, target, legacy_vars>>

(* "Update job with results" up to the commit: one commit writes the log,  *)
(* completed_at, the status and the metadata assigned on the way.          *)
FinalLog(out) == IF Truthy(out) THEN out ELSE <<TimeoutNote>>

StatsKinds == {"create", "prune"}

FinalMetadata(kind, meta, out) ==
  IF kind \in StatsKinds
  THEN LET res == extract_stats_from_output(out)
       IN  IF res.raised THEN [meta EXCEPT !.stats_error = TRUE]
           ELSE [meta EXCEPT !.stats = res.stats]
  ELSE IF kind = "list" THEN [NoMetadata EXCEPT !.archives = TRUE]
  ELSE meta

run_backup_job_thread_finalize(r) ==
  /\ runner[r].pc = "finalize"
  /\ log_output' = FinalLog(runner[r].output)
  /\ completed_at' = "time"
  /\ IF runner[r].exit_code = 0
     THEN /\ status' = "success"
          /\ job_metadata' = FinalMetadata(job_type, runner[r].metadata, runner[r].output)
     ELSE /\ status' = "failed"
          /\ UNCHANGED job_metadata
  /\ runner' = [runner EXCEPT ![r].pc = "done"]
  /\ UNCHANGED <<aux_vars, engine, job_type, cancel, target, legacy_vars>>

(* except Exception of _run_backup_job_thread *)
run_backup_job_thread_except(r) ==
  /\ runner[r].pc = "except"
  /\ status' = "failed"
  /\ log_output' = Append(runner[r].job_log, ErrorNote)
  /\ completed_at' = "time"
  /\ runner' = [runner EXCEPT ![r].pc = "done"]
  /\ UNCHANGED <<aux_vars, engine, job_type, job_metadata, cancel, target, legacy_vars>>

(***************************************************************************)
(* The borg process of a command job: it prints lines, at most one         *)
(* statistics block (create and prune run with --stats), and exits.        *)
(***************************************************************************)
MayPrint(kind, out) ==
  IF kind = "mount" THEN MountLines
  ELSE IF kind \in StatsKinds /\ \A i \in 1..Len(out) : out[i] \notin StatsBlocks
  THEN ProcessLines ELSE {"line"}

process_print(r) ==
  /\ engine = "citadel"
  /\ runner[r].proc = "alive"
  /\ Len(runner[r].pipe) + Len(runner[r].output) < MaxOut
  /\ \E l \in MayPrint(job_type, runner[r].pipe) :
       runner' = [runner EXCEPT ![r].pipe = Append(@, l)]
  /\ UNCHANGED <<aux_vars, engine, job_type, status, completed_at, log_output, job_metadata, cancel, target, legacy_vars>>

process_exit(r) ==
  /\ engine = "citadel"
  /\ runner[r].proc = "alive"
  /\ \E code \in {0, 1} :
       runner' = [runner EXCEPT ![r].proc = "exited", ![r].exit_code = code]
  /\ UNCHANGED <<aux_vars, engine, job_type, status, completed_at, log_output, job_metadata, cancel, target, legacy_vars>>

(***************************************************************************)
(* mount_archive / _mount_archive_thread, citadel/backup/mount.py          *)
(***************************************************************************)
PollBudget == 10

MissingParamsNote == "Missing archive name or mount point"
MkdirFailedNote == "Failed to create mount point"
MountEmptyNote == "Mount point is empty after mounting. Mount failed."
MountSuccessNote == "Mount successful"
MountFailedNote == "Mount failed: exception"

(* "error" in line.lower() or "critical" in line.lower() *)
IsMountError(line) == line = "error_line"

mount_archive(r) ==
  /\ engine = "citadel" /\ job_type = "mount"
  /\ FreeRunner(r)
  /\ runner' = [runner EXCEPT ![r].pc = "m_start"]
  /\ UNCHANGED <<aux_vars, engine, job_type, status, completed_at, log_output, job_metadata, cancel, target, legacy_vars>>

(* "Set job as running" *)
mount_thread_start(r) ==
  /\ runner[r].pc = "m_start"
  /\ status' = "running"
  /\ runner' = [runner EXCEPT ![r].pc = "m_prepare"]
  /\ UNCHANGED <<aux_vars, engine, job_type, completed_at, log_output, job_metadata, cancel, target, legacy_vars>>

(* Mount parameters from the metadata and the mount point directory: both  *)
(* failures commit status and log_output only.  The repository lookup      *)
(* before them finds its row: delete_repository, the one operation that    *)
(* removes a repository, removes the jobs of the repository with it.       *)
mount_thread_prepare(r) ==
  /\ runner[r].pc = "m_prepare"
  /\ \E mkdir_ok \in BOOLEAN :
       IF ~job_metadata.mount_point \/ ~mkdir_ok
       THEN /\ status' = "failed"
            /\ log_output' = IF ~job_metadata.mount_point
                             THEN <<MissingParamsNote>> ELSE <<MkdirFailedNote>>
            /\ runner' = [runner EXCEPT ![r].pc = "done"]
       ELSE /\ runner' = [runner EXCEPT ![r].pc = "m_spawn", ![r].metadata = job_metadata]
            /\ UNCHANGED <<status, log_output>>
  /\ UNCHANGED <<aux_vars, engine, job_type, completed_at, job_metadata, cancel, target, legacy_vars>>

(* subprocess.Popen with the pid kept in the thread's metadata only, to be  *)
(* committed with the result of the mount                                  *)
mount_thread_spawn_commit_later(r) ==
  /\ runner[r].pc = "m_spawn"
  /\ \/ /\ runner' = [runner EXCEPT ![r].pc = "m_except"]
     \/ LET md == [runner[r].metadata EXCEPT !.mount_pid = TRUE, !.mount_status = "mounting"]
        IN  runner' = [runner EXCEPT ![r].pc = "m_poll", ![r].proc = "alive",
                         ![r].pipe = <<>>, ![r].output = <<>>, ![r].i = 0,
                         ![r].metadata = md]
  /\ UNCHANGED <<aux_vars, engine, job_type, status, completed_at, log_output, job_metadata,
                 cancel, target, legacy_vars>>

(* subprocess.Popen, then the pid is stored and committed *)
mount_thread_spawn(r) ==
  /\ runner[r].pc = "m_spawn"
  /\ \/ /\ runner' = [runner EXCEPT ![r].pc = "m_except"]
        /\ UNCHANGED job_metadata
     \/ LET md == [runner[r].metadata EXCEPT !.mount_pid = TRUE, !.mount_status = "mounting"]
        IN  /\ runner' = [runner EXCEPT ![r].pc = "m_poll", ![r].proc = "alive",
                            ![r].pipe = <<>>, ![r].output = <<>>, ![r].i = 0,
                            ![r].metadata = md]
            /\ job_metadata' = md
  /\ UNCHANGED <<aux_vars, engine, job_type, status, completed_at, log_output, cancel, target, legacy_vars>>

(* One iteration of "for i in range(10)": readline blocks until the        *)
(* process has printed a line or closed its output.                        *)
mount_thread_poll(r) ==
  /\ runner[r].pc = "m_poll"
  /\ runner[r].pipe # <<>> \/ runner[r].proc # "alive"
  /\ LET line == IF runner[r].pipe # <<>> THEN Head(runner[r].pipe) ELSE ""
         rest == IF runner[r].pipe # <<>> THEN Tail(runner[r].pipe) ELSE <<>>
         out  == IF line # "" THEN Append(runner[r].output, line) ELSE runner[r].output
     IN  IF line # "" /\ IsMountError(line)
         THEN /\ status' = "failed"
              /\ log_output' = out
              /\ completed_at' = "time"
              /\ job_metadata' = runner[r].metadata
              /\ runner' = [runner EXCEPT ![r].pc = "done", ![r].pipe = rest, ![r].output = out,
                              ![r].proc = IF @ = "alive" THEN "killed" ELSE @]
         ELSE IF runner[r].proc # "alive"
         THEN IF runner[r].exit_code # 0
              THEN /\ status' = "failed"
                   /\ log_output' = out
                   /\ completed_at' = "time"
                   /\ job_metadata' = runner[r].metadata
                   /\ runner' = [runner EXCEPT ![r].pc = "done", ![r].pipe = rest, ![r].output = out]
              ELSE /\ runner' = [runner EXCEPT ![r].pc = "m_verify", ![r].pipe = rest, ![r].output = out]
                   /\ UNCHANGED <<status, log_output, completed_at, job_metadata>>
         ELSE /\ runner' = [runner EXCEPT
                   ![r].pc = IF runner[r].i + 1 = PollBudget THEN "m_verify" ELSE "m_poll",
                   ![r].i = runner[r].i + 1, ![r].pipe = rest, ![r].output = out]
              /\ UNCHANGED <<status, log_output, completed_at, job_metadata>>
  /\ UNCHANGED <<aux_vars, engine, job_type, cancel, target, legacy_vars>>

(* "Mount successful": status, log_output and metadata are committed *)
MountSucceeds(r) ==
  LET md == [runner[r].metadata EXCEPT !.mount_status = "mounted"]
  IN  /\ status' = "success"
      /\ log_output' = Append(runner[r].output, MountSuccessNote)
      /\ job_metadata' = md
      /\ runner' = [runner EXCEPT ![r].pc = "done", ![r].metadata = md]
      /\ UNCHANGED completed_at

(* os.listdir(mount_point) after the loop; it can raise (OSError) *)
mount_thread_verify(r) ==
  /\ runner[r].pc = "m_verify"
  /\ \E listing \in {"content", "empty", "raised"} :
       CASE listing = "content" -> MountSucceeds(r)
         [] listing = "empty" ->
              /\ runner' = [runner EXCEPT ![r].pc = "m_recheck"]
              /\ UNCHANGED <<status, log_output, completed_at, job_metadata>>
         [] OTHER ->
              /\ runner' = [runner EXCEPT ![r].pc = "m_except"]
              /\ UNCHANGED <<status, log_output, completed_at, job_metadata>>
  /\ UNCHANGED <<aux_vars, engine, job_type, cancel, target, legacy_vars>>

(* the second os.listdir, after which an empty directory fails the job and *)
(* leaves the mount process as it is                                       *)
mount_thread_recheck_keep_process(r) ==
  /\ runner[r].pc = "m_recheck"
  /\ \E listing \in {"content", "empty", "raised"} :
       CASE listing = "content" -> MountSucceeds(r)
         [] listing = "empty" ->
              /\ status' = "failed"
              /\ log_output' = Append(runner[r].output, MountEmptyNote)
              /\ completed_at' = "time"
              /\ job_metadata' = runner[r].metadata
              /\ runner' = [runner EXCEPT ![r].pc = "done"]
         [] OTHER ->
              /\ runner' = [runner EXCEPT ![r].pc = "m_except"]
              /\ UNCHANGED <<status, log_output, completed_at, job_metadata>>
  /\ UNCHANGED <<aux_vars, engine, job_type, cancel, target, legacy_vars>>

(* the second os.listdir, after time.sleep(5) *)
mount_thread_recheck(r) ==
  /\ runner[r].pc = "m_recheck"
  /\ \E listing \in {"content", "empty", "raised"} :
       CASE listing = "content" -> MountSucceeds(r)
         [] listing = "empty" ->
              /\ status' = "failed"
              /\ log_output' = Append(runner[r].output, MountEmptyNote)
              /\ completed_at' = "time"
              /\ job_metadata' = runner[r].metadata
              /\ runner' = [runner EXCEPT ![r].pc = "done",
                              ![r].proc = IF @ = "alive" THEN "killed" ELSE @]
         [] OTHER ->
              /\ runner' = [runner EXCEPT ![r].pc = "m_except"]
              /\ UNCHANGED <<status, log_output, completed_at, job_metadata>>
  /\ UNCHANGED <<aux_vars, engine, job_type, cancel, target, legacy_vars>>

(* the inner "except Exception" of _mount_archive_thread *)
mount_thread_except(r) ==
  /\ runner[r].pc = "m_except"
  /\ status' = "failed"
  /\ log_output' = <<MountFailedNote>>
  /\ completed_at' = "time"
  /\ runner' = [runner EXCEPT ![r].pc = "done"]
  /\ UNCHANGED <<aux_vars, engine, job_type, job_metadata, cancel, target, legacy_vars>>

(***************************************************************************)
(* unmount_archive / _unmount_archive_thread, citadel/backup/mount.py      *)
(***************************************************************************)
MissingMountPointNote == "Missing mount point"
UnmountedNote == "Archive unmounted"
UnmountFailedNote == "Unmount failed: exception"

unmount_archive(r) ==
  /\ engine = "citadel" /\ job_type = "unmount"
  /\ FreeRunner(r)
  /\ runner' = [runner EXCEPT ![r].pc = "u_start"]
  /\ UNCHANGED <<aux_vars, engine, job_type, status, completed_at, log_output, job_metadata, cancel, target, legacy_vars>>

unmount_thread_start(r) ==
  /\ runner[r].pc = "u_start"
  /\ status' = "running"
  /\ runner' = [runner EXCEPT ![r].pc = "u_prepare"]
  /\ UNCHANGED <<aux_vars, engine, job_type, completed_at, log_output, job_metadata, cancel, target, legacy_vars>>

unmount_thread_prepare(r) ==
  /\ runner[r].pc = "u_prepare"
  /\ IF ~job_metadata.mount_point
     THEN /\ status' = "failed"
          /\ log_output' = <<MissingMountPointNote>>
          /\ runner' = [runner EXCEPT ![r].pc = "done"]
     ELSE /\ runner' = [runner EXCEPT ![r].pc = "u_signal", ![r].metadata = job_metadata]
          /\ UNCHANGED <<status, log_output>>
  /\ UNCHANGED <<aux_vars, engine, job_type, completed_at, job_metadata, cancel, target, legacy_vars>>

(* os.kill(mount_pid, 0), os.kill(mount_pid, SIGTERM) when the metadata    *)
(* holds a pid; a mount process that ends may take its mount with it.  The *)
(* OSError of a pid that no longer exists is caught and logged.            *)
unmount_thread_signal(r) ==
  /\ runner[r].pc = "u_signal"
  /\ IF runner[r].metadata.mount_pid /\ target.alive
     THEN \E gone \in BOOLEAN :
            target' = [target EXCEPT !.alive = FALSE, !.mounted = target.mounted /\ ~gone]
     ELSE UNCHANGED target
  /\ runner' = [runner EXCEPT ![r].pc = "u_fusermount",
                              ![r].pid_gone = runner[r].metadata.mount_pid /\ ~target.alive]
  /\ UNCHANGED <<aux_vars, engine, job_type, status, completed_at, log_output, job_metadata, cancel, legacy_vars>>

(* subprocess.run(["fusermount", "-u", mount_point], timeout=30): exit     *)
(* code zero only if it unmounted; it can raise (tool absent, timeout).    *)
unmount_thread_fusermount(r) ==
  /\ runner[r].pc = "u_fusermount"
  /\ \/ /\ target.mounted
        /\ target' = [target EXCEPT !.mounted = FALSE]
        /\ runner' = [runner EXCEPT ![r].pc = "u_finish"]
     \/ /\ runner' = [runner EXCEPT ![r].pc = "u_umount"]
        /\ UNCHANGED target
     \/ /\ runner' = [runner EXCEPT ![r].pc = "u_except"]
        /\ UNCHANGED target
  /\ UNCHANGED <<aux_vars, engine, job_type, status, completed_at, log_output, job_metadata, cancel, legacy_vars>>

(* subprocess.run(["umount", mount_point], timeout=30) *)
unmount_thread_umount(r) ==
  /\ runner[r].pc = "u_umount"
  /\ \/ /\ target.mounted
        /\ target' = [target EXCEPT !.mounted = FALSE]
        /\ runner' = [runner EXCEPT ![r].pc = "u_finish"]
     \/ /\ runner' = [runner EXCEPT ![r].pc = "u_finish"]
        /\ UNCHANGED target
     \/ /\ runner' = [runner EXCEPT ![r].pc = "u_except"]
        /\ UNCHANGED target
  /\ UNCHANGED <<aux_vars, engine, job_type, status, completed_at, log_output, job_metadata, cancel, legacy_vars>>

(* "Update job status" *)
unmount_thread_finish(r) ==
  /\ runner[r].pc = "u_finish"
  /\ status' = "success"
  /\ log_output' = <<UnmountedNote>>
  /\ completed_at' = "time"
  /\ job_metadata' = [runner[r].metadata EXCEPT !.mount_status = "unmounted"]
  /\ runner' = [runner EXCEPT ![r].pc = "done"]
  /\ UNCHANGED <<aux_vars, engine, job_type, cancel, target, legacy_vars>>

unmount_thread_except(r) ==
  /\ runner[r].pc = "u_except"
  /\ status' = "failed"
  /\ log_output' = <<UnmountFailedNote>>
  /\ completed_at' = "time"
  /\ runner' = [runner EXCEPT ![r].pc = "done"]
  /\ UNCHANGED <<aux_vars, engine, job_type, job_metadata, cancel, target, legacy_vars>>

(***************************************************************************)
(* run_borg_command, backup.py: the executor of the first generation of    *)
(* the application.  Its routes create the job with status running and     *)
(* start the thread; two read_stream threads append each line the process  *)
(* prints to job.log_output.                                               *)
(***************************************************************************)
StatsDisplay == "BACKUP STATISTICS"

(* read_stream: a line of stderr gets a severity prefix *)
IsErrorLine(line) == line = "error_line"

FormatLine(line, is_stderr) ==
  IF is_stderr /\ line # ""
  THEN (IF IsErrorLine(line) THEN "[ERROR] " ELSE "[WARN] ") \o line
  ELSE line

(* extract_stats_from_output of backup.py reads the section between the    *)
(* first two delimiters, with or without the "[WARN] " prefix.  It has no  *)
(* try around float(duration_str.replace(" seconds", "")), which raises    *)
(* ValueError on "3 minutes 45.00 seconds".                                *)
BlockOf(entry) ==
  IF \E b \in StatsBlocks : entry = b \/ entry = "[WARN] " \o b
  THEN CHOOSE b \in StatsBlocks : entry = b \/ entry = "[WARN] " \o b
  ELSE "none"

legacy_extract_stats_from_output(out) ==
  LET idx == {k \in 1..Len(out) : BlockOf(out[k]) # "none"}
      first == IF idx = {} THEN "empty"
               ELSE BlockOf(out[CHOOSE k \in idx : \A m \in idx : k <= m])
  IN  [raised |-> first = "stats_minutes", stats |-> first]

(* format_stats_for_display: with original_size = 0 there is no            *)
(* compression_ratio and compressed_size / original_size divides by zero.  *)
format_stats_raises(stats) == stats = "stats_zero"

(* run_borg_command up to the start of the reader threads *)
run_borg_command_start(r) ==
  /\ engine = "legacy" /\ runner[r].pc = "l_start"
  /\ log_output' = <<>>
  /\ \/ /\ runner' = [runner EXCEPT ![r].pc = "l_except"]
        /\ UNCHANGED reader
     \/ /\ runner' = [runner EXCEPT ![r].pc = "l_wait", ![r].proc = "alive"]
        /\ reader' = [s \in Streams |-> [reader[s] EXCEPT !.pc = "readline"]]
  /\ UNCHANGED <<aux_vars, engine, job_type, status, completed_at, job_metadata, cancel, target,
                 pipes, printed>>

legacy_process_print(r) ==
  /\ engine = "legacy" /\ runner[r].proc = "alive"
  /\ \E s \in Streams :
       /\ printed[s] < MaxOut
       /\ \E l \in IF job_type \in StatsKinds /\ ~printed.stats
                   THEN ProcessLines ELSE {"line"} :
            /\ pipes' = [pipes EXCEPT ![s] = Append(@, l)]
            /\ printed' = [printed EXCEPT ![s] = @ + 1,
                                          !.stats = @ \/ l \in StatsBlocks]
  /\ UNCHANGED <<aux_vars, engine, job_type, status, completed_at, log_output, job_metadata,
                 runner, cancel, target, reader>>

legacy_process_exit(r) ==
  /\ engine = "legacy" /\ runner[r].proc = "alive"
  /\ \E code \in {0, 1} :
       runner' = [runner EXCEPT ![r].proc = "exited", ![r].exit_code = code]
  /\ UNCHANGED <<aux_vars, engine, job_type, status, completed_at, log_output, job_metadata,
                 cancel, target, legacy_vars>>

(* read_stream: stream.readline() and Job.query.get(job_id); at the end of *)
(* the stream the thread ends.                                             *)
read_stream_readline(s) ==
  /\ reader[s].pc = "readline"
  /\ \/ /\ pipes[s] # <<>>
        /\ reader' = [reader EXCEPT ![s] = [pc |-> "append", line |-> Head(pipes[s]),
                                            job_log |-> log_output]]
        /\ pipes' = [pipes EXCEPT ![s] = Tail(@)]
     \/ /\ pipes[s] = <<>> /\ \A r \in Runners : runner[r].proc # "alive"
        /\ reader' = [reader EXCEPT ![s].pc = "eof"]
        /\ UNCHANGED pipes
  /\ UNCHANGED <<aux_vars, engine, job_type, status, completed_at, log_output, job_metadata,
                 runner, cancel, target, printed>>

(* read_stream: "Append to log_output" and commit *)
read_stream_append(s) ==
  /\ reader[s].pc = "append"
  /\ log_output' = Append(reader[s].job_log, FormatLine(reader[s].line, s = "stderr"))
  /\ reader' = [reader EXCEPT ![s] = [pc |-> "readline", line |-> "", job_log |-> <<>>]]
  /\ UNCHANGED <<aux_vars, engine, job_type, status, completed_at, job_metadata,
                 runner, cancel, target, pipes, printed>>

(* process.wait(), the two joins and the refresh of the job *)
run_borg_command_wait(r) ==
  /\ runner[r].pc = "l_wait" /\ runner[r].proc = "exited"
  /\ \A s \in Streams : reader[s].pc = "eof"
  /\ runner' = [runner EXCEPT ![r].pc = "l_finalize", ![r].job_log = log_output,
                              ![r].metadata = job_metadata]
  /\ UNCHANGED <<aux_vars, engine, job_type, status, completed_at, log_output, job_metadata,
                 cancel, target, legacy_vars>>

(* "Update job with final status" to the commit, or to the commit of the   *)
(* except handler when the extraction or the formatting raises.            *)
run_borg_command_finalize(r) ==
  /\ runner[r].pc = "l_finalize"
  /\ completed_at' = "time"
  /\ LET res == legacy_extract_stats_from_output(runner[r].job_log)
         md  == [runner[r].metadata EXCEPT !.stats = res.stats]
     IN  IF runner[r].exit_code # 0
         THEN /\ status' = "failed"
              /\ UNCHANGED <<log_output, job_metadata>>
         ELSE IF ~(job_type \in StatsKinds /\ Truthy(runner[r].job_log))
         THEN /\ status' = "success"
              /\ UNCHANGED <<log_output, job_metadata>>
         ELSE IF res.raised
         THEN /\ status' = "failed"
              /\ log_output' = <<ErrorNote>>
              /\ UNCHANGED job_metadata
         ELSE IF res.stats = "empty"
         THEN /\ status' = "success"
              /\ UNCHANGED <<log_output, job_metadata>>
         ELSE IF format_stats_raises(res.stats)
         THEN /\ status' = "failed"
              /\ log_output' = <<ErrorNote>>
              /\ job_metadata' = md
         ELSE /\ status' = "success"
              /\ log_output' = Append(runner[r].job_log, StatsDisplay)
              /\ job_metadata' = md
  /\ runner' = [runner EXCEPT ![r].pc = "done"]
  /\ UNCHANGED <<aux_vars, engine, job_type, cancel, target, legacy_vars>>

(* except Exception of run_borg_command, reached from subprocess.Popen *)
run_borg_command_except(r) ==
  /\ runner[r].pc = "l_except"
  /\ status' = "failed"
  /\ log_output' = <<ErrorNote>>
  /\ completed_at' = "time"
  /\ runner' = [runner EXCEPT ![r].pc = "done"]
  /\ UNCHANGED <<aux_vars, engine, job_type, job_metadata, cancel, target, legacy_vars>>

(***************************************************************************)
(* Cancel: api_cancel_job (citadel/backup/routes.py) and cancel_job with   *)
(* Job.cancel (backup.py, models.py).  The handler loads the job, checks   *)
(* the status and, in a later statement, commits the cancelled row.        *)
(***************************************************************************)
CancelAllowedAlsoCreated(s) == s \in {"created", "running"}

CancelAllowed(s) == s = "running"

cancel_job_check ==
  /\ cancel.pc = "idle" /\ cancel.count < MaxCancel
  /\ cancel' = IF CancelAllowed(status)
               THEN [pc |-> "commit", count |-> cancel.count + 1,
                     job_log |-> log_output, result |-> "pending"]
               ELSE [pc |-> "idle", count |-> cancel.count + 1,
                     job_log |-> <<>>, result |-> "rejected"]
  /\ UNCHANGED <<aux_vars, engine, job_type, status, completed_at, log_output, job_metadata, runner, target, legacy_vars>>

cancel_job_commit ==
  /\ cancel.pc = "commit"
  /\ status' = "cancelled"
  /\ completed_at' = "time"
  /\ log_output' = Append(cancel.job_log, CancelNote)
  /\ cancel' = [cancel EXCEPT !.pc = "idle", !.job_log = <<>>, !.result = "ok"]
  /\ UNCHANGED <<aux_vars, engine, job_type, job_metadata, runner, target, legacy_vars>>

NoTarget == [alive |-> FALSE, mounted |-> FALSE, status |-> "none", mount_status |-> "none"]

(* The mount an unmount job is created for: a mount job that succeeded,    *)
(* with mount_status mounted; its process and its mount may be gone.       *)
Targets ==
  {[alive |-> a, mounted |-> m, status |-> "success", mount_status |-> "mounted"] :
     a \in BOOLEAN, m \in BOOLEAN}

(* get_all_active_mounts: whether the list holds the mount job of target.  *)
(* The query filters on job_type mount and status success, the loop on     *)
(* check_mount_status of the mount point.                                  *)
get_all_active_mounts == target.status = "success" /\ target.mounted

(* A job as its creator commits it: status created, no output; a mount or  *)
(* unmount job carries the parameters its creator put into the metadata.   *)
InitCitadel ==
  /\ engine = "citadel"
  /\ job_type \in CommandKinds \cup MountKinds
  /\ status = "created"
  /\ completed_at = "null"
  /\ log_output = <<>>
  /\ \E mp, pid \in BOOLEAN :
       job_metadata = CASE job_type = "mount" -> [NoMetadata EXCEPT !.mount_point = mp]
                        [] job_type = "unmount" ->
                             [NoMetadata EXCEPT !.mount_point = mp, !.mount_pid = pid]
                        [] OTHER -> NoMetadata
  /\ target \in IF job_type = "unmount" THEN Targets ELSE {NoTarget}
  /\ runner = [r \in Runners |-> IdleRunner]
  /\ cancel = [pc |-> "idle", count |-> 0, job_log |-> <<>>, result |-> "none"]
  /\ pipes = [s \in Streams |-> <<>>]
  /\ printed = [stdout |-> 0, stderr |-> 0, stats |-> FALSE]
  /\ reader = [s \in Streams |-> [pc |-> "idle", line |-> "", job_log |-> <<>>]]

(* The routes of backup.py commit the job with status running and start    *)
(* the run_borg_command thread.                                            *)
InitLegacy ==
  /\ engine = "legacy"
  /\ job_type \in CommandKinds
  /\ status = "running"
  /\ completed_at = "null"
  /\ log_output = <<>>
  /\ job_metadata = NoMetadata
  /\ target = NoTarget
  /\ runner = [r \in Runners |-> IF r = "r1" THEN [IdleRunner EXCEPT !.pc = "l_start"]
                                  ELSE IdleRunner]
  /\ cancel = [pc |-> "idle", count |-> 0, job_log |-> <<>>, result |-> "none"]
  /\ pipes = [s \in Streams |-> <<>>]
  /\ printed = [stdout |-> 0, stderr |-> 0, stats |-> FALSE]
  /\ reader = [s \in Streams |-> [pc |-> "idle", line |-> "", job_log |-> <<>>]]

(* The job engine runs with the state of the other components at rest *)
NoCheck == [path |-> <<>>, result |-> FALSE]

NoForce == [base_dir |-> <<>>, results |-> {}]

FsIdle == dirs = {} /\ mtab = {} /\ checked = NoCheck /\ forced = NoForce

NoCall == [fn |-> "none", max_age_hours |-> 0, force |-> FALSE, result |-> {}]

ReaperIdle == mjobs = <<>> /\ ujobs = <<>> /\ called = NoCall

SchedJobs == {"mount_cleanup", "mount_cleanup_startup"}

(* mount_scheduler = None *)
NoScheduler ==
  [running |-> FALSE, interval |-> [j \in SchedJobs |-> 0],
   next_run_time |-> [j \in SchedJobs |-> 0]]

NoSchedule == [pc |-> "none", auto_prune |-> FALSE, prune_job |-> "none"]

CleanupIdle ==
  /\ clock = 0
  /\ mount_scheduler = NoScheduler
  /\ runs = [j \in SchedJobs |-> 0]

SchedIdle == CleanupIdle /\ schedule = NoSchedule

NoAnswer == [offset |-> 0, log_output |-> <<>>, total_output_length |-> 0]

PollIdle == answer = NoAnswer /\ received = <<>>

PassIdle == repository = [encryption |-> FALSE, key |-> ""] /\ pair = <<>>

(* The digits of a number of bytes to the base 1024 *)
NumDigits == 6

Places == 1..NumDigits

Zero == [digits |-> [i \in Places |-> 0], frac |-> 0]

(* An int of Python *)
PyInt(x) == [type |-> "int", num |-> x]

NoToken == [value |-> 0, unit |-> ""]

NoParse == [parser |-> "none", size_str |-> NoToken, result |-> PyInt(Zero)]

NoExtract ==
  [extractor |-> "none", output |-> <<>>, job_status |-> "none",
   result |-> [raised |-> FALSE, stats |-> {}]]

NoTag == [line |-> <<>>, is_stderr |-> FALSE, result |-> <<>>]

StatsIdle == sized = NoParse /\ extracted = NoExtract /\ tagged = NoTag

AuxIdle == FsIdle /\ ReaperIdle /\ SchedIdle /\ PollIdle /\ StatsIdle /\ PassIdle /\ StatsIdle

Init == (InitCitadel \/ InitLegacy) /\ AuxIdle

Next ==
  \/ \E r \in Runners : run_backup_job(r)
  \/ \E r \in Runners : run_backup_job_thread_load(r)
  \/ \E r \in Runners : run_backup_job_thread_exec(r)
  \/ \E r \in Runners : run_backup_job_thread_communicate(r)
  \/ \E r \in Runners : run_backup_job_thread_timeout(r)
  \/ \E r \in Runners : run_backup_job_thread_finalize(r)
  \/ \E r \in Runners : run_backup_job_thread_except(r)
  \/ \E r \in Runners : process_print(r)
  \/ \E r \in Runners : process_exit(r)
  \/ \E r \in Runners : mount_archive(r)
  \/ \E r \in Runners : mount_thread_start(r)
  \/ \E r \in Runners : mount_thread_prepare(r)
  \/ \E r \in Runners : mount_thread_spawn(r)
  \/ \E r \in Runners : mount_thread_poll(r)
  \/ \E r \in Runners : mount_thread_verify(r)
  \/ \E r \in Runners : mount_thread_recheck(r)
  \/ \E r \in Runners : mount_thread_except(r)
  \/ \E r \in Runners : unmount_archive(r)
  \/ \E r \in Runners : unmount_thread_start(r)
  \/ \E r \in Runners : unmount_thread_prepare(r)
  \/ \E r \in Runners : unmount_thread_signal(r)
  \/ \E r \in Runners : unmount_thread_fusermount(r)
  \/ \E r \in Runners : unmount_thread_umount(r)
  \/ \E r \in Runners : unmount_thread_finish(r)
  \/ \E r \in Runners : unmount_thread_except(r)
  \/ \E r \in Runners : run_borg_command_start(r)
  \/ \E r \in Runners : legacy_process_print(r)
  \/ \E r \in Runners : legacy_process_exit(r)
  \/ \E s \in Streams : read_stream_readline(s)
  \/ \E s \in Streams : read_stream_append(s)
  \/ \E r \in Runners : run_borg_command_wait(r)
  \/ \E r \in Runners : run_borg_command_finalize(r)
  \/ \E r \in Runners : run_borg_command_except(r)
  \/ cancel_job_check
  \/ cancel_job_commit

Spec == Init /\ [][Next]_vars


(* The threads of the program run to their next blocking point; nothing    *)
(* makes a borg process print or exit, and nothing makes a caller dispatch *)
(* or a user cancel.                                                       *)
ThreadStep ==
  \/ \E r \in Runners : run_backup_job_thread_load(r)
  \/ \E r \in Runners : run_backup_job_thread_exec(r)
  \/ \E r \in Runners : run_backup_job_thread_communicate(r)
  \/ \E r \in Runners : run_backup_job_thread_timeout(r)
  \/ \E r \in Runners : run_backup_job_thread_finalize(r)
  \/ \E r \in Runners : run_backup_job_thread_except(r)
  \/ \E r \in Runners : mount_thread_start(r)
  \/ \E r \in Runners : mount_thread_prepare(r)
  \/ \E r \in Runners : mount_thread_spawn(r)
  \/ \E r \in Runners : mount_thread_poll(r)
  \/ \E r \in Runners : mount_thread_verify(r)
  \/ \E r \in Runners : mount_thread_recheck(r)
  \/ \E r \in Runners : mount_thread_except(r)
  \/ \E r \in Runners : unmount_thread_start(r)
  \/ \E r \in Runners : unmount_thread_prepare(r)
  \/ \E r \in Runners : unmount_thread_signal(r)
  \/ \E r \in Runners : unmount_thread_fusermount(r)
  \/ \E r \in Runners : unmount_thread_umount(r)
  \/ \E r \in Runners : unmount_thread_finish(r)
  \/ \E r \in Runners : unmount_thread_except(r)
  \/ \E r \in Runners : run_borg_command_start(r)
  \/ \E s \in Streams : read_stream_readline(s)
  \/ \E s \in Streams : read_stream_append(s)
  \/ \E r \in Runners : run_borg_command_wait(r)
  \/ \E r \in Runners : run_borg_command_finalize(r)
  \/ \E r \in Runners : run_borg_command_except(r)
  \/ cancel_job_commit

FairSpec == Spec /\ WF_vars(ThreadStep)

(* The other components run with no job in the engine *)
JobIdle ==
  /\ engine = "none"
  /\ job_type = "none"
  /\ status = "none"
  /\ completed_at = "null"
  /\ log_output = <<>>
  /\ job_metadata = NoMetadata
  /\ target = NoTarget
  /\ runner = [r \in Runners |-> IdleRunner]
  /\ cancel = [pc |-> "idle", count |-> 0, job_log |-> <<>>, result |-> "none"]
  /\ pipes = [s \in Streams |-> <<>>]
  /\ printed = [stdout |-> 0, stderr |-> 0, stats |-> FALSE]
  /\ reader = [s \in Streams |-> [pc |-> "idle", line |-> "", job_log |-> <<>>]]

(***************************************************************************)
(* check_mount_status, citadel/backup/mount.py.  The module defines the    *)
(* function twice; the second definition (the mount command) replaces the  *)
(* first (os.path.ismount) when the module is loaded, and it is the one    *)
(* mount_management imports.                                               *)
(*                                                                         *)
(* A path is the sequence of its characters.  The file system is the set   *)
(* of paths that exist and the set of those that are mount points.         *)
(***************************************************************************)
MaxPathLen == 2
MaxDirs == 2

PathChars == {"a", "b"}

RECURSIVE SeqsUpTo(_, _)
SeqsUpTo(S, n) ==
  IF n = 0 THEN {<<>>}
  ELSE LET shorter == SeqsUpTo(S, n - 1)
       IN  shorter \cup {Append(q, c) : q \in shorter, c \in S}

Paths == SeqsUpTo(PathChars, MaxPathLen) \ {<<>>}

(* needle in text, of Python strings *)
Substring(needle, text) ==
  \E i \in 0..(Len(text) - Len(needle)) : SubSeq(text, i + 1, i + Len(needle)) = needle

(* A line of the output of mount: "<device> on <mount point> type <type>   *)
(* (<options>)"; " " stands for the text before and after the mount point. *)
MountLine(m) == <<" ">> \o m \o <<" ">>

(* result.stdout of subprocess.run(["mount"]): one line per mount.  A      *)
(* mount point holds no newline, so "mount_point in result.stdout" is true *)
(* when one of the lines holds it.                                         *)
MountStdout == {MountLine(m) : m \in mtab}

(* listable: os.listdir(mount_point) returns; when it raises, the except   *)
(* clause of the function returns False.                                   *)
check_mount_status(mount_point, listable) ==
  IF mount_point \notin dirs THEN FALSE
  ELSE IF \E l \in MountStdout : Substring(mount_point, l) THEN listable
  ELSE FALSE

fs_mkdir(p) ==
  /\ p \notin dirs /\ Cardinality(dirs) < MaxDirs
  /\ dirs' = dirs \cup {p}
  /\ UNCHANGED <<job_vars, reaper_vars, sched_vars, poll_vars, stats_vars, pass_vars, mtab, checked, forced>>

fs_rmdir(p) ==
  /\ p \in dirs /\ p \notin mtab
  /\ dirs' = dirs \ {p}
  /\ UNCHANGED <<job_vars, reaper_vars, sched_vars, poll_vars, stats_vars, pass_vars, mtab, checked, forced>>

fs_mount(p) ==
  /\ p \in dirs /\ p \notin mtab
  /\ mtab' = mtab \cup {p}
  /\ UNCHANGED <<job_vars, reaper_vars, sched_vars, poll_vars, stats_vars, pass_vars, dirs, checked, forced>>

fs_umount(p) ==
  /\ p \in mtab
  /\ mtab' = mtab \ {p}
  /\ UNCHANGED <<job_vars, reaper_vars, sched_vars, poll_vars, stats_vars, pass_vars, dirs, checked, forced>>

call_check_mount_status(p) ==
  /\ \E listable \in BOOLEAN :
       checked' = [path |-> p, result |-> check_mount_status(p, listable)]
  /\ UNCHANGED <<job_vars, reaper_vars, sched_vars, poll_vars, stats_vars, pass_vars, dirs, mtab, forced>>

FsInit == JobIdle /\ FsIdle /\ ReaperIdle /\ SchedIdle /\ PollIdle /\ StatsIdle /\ PassIdle

FsNext ==
  \/ \E p \in Paths : fs_mkdir(p)
  \/ \E p \in Paths : fs_rmdir(p)
  \/ \E p \in Paths : fs_mount(p)
  \/ \E p \in Paths : fs_umount(p)
  \/ \E p \in Paths : call_check_mount_status(p)

FsSpec == FsInit /\ [][FsNext]_vars

(***************************************************************************)
(* Orphaned mounts, citadel/backup/mount_management.py.  Times are hours   *)
(* since an epoch.  A timestamp column holds None or a datetime;           *)
(* isoformat makes the text of a datetime and fromisoformat reads such a   *)
(* text back, raising ValueError on anything else.                         *)
(***************************************************************************)
MaxMounts == 2

MountIds == 1..MaxMounts

utcnow == 48
DefaultMaxAge == 24

Ages == {1, 24, 25}
MaxAges == {1, DefaultMaxAge}

None == [kind |-> "none", t |-> 0]

datetime(n) == [kind |-> "datetime", t |-> n]

isoformat(d) == [kind |-> "isotext", t |-> d.t]

fromisoformat(x) ==
  IF x.kind = "isotext" THEN [raised |-> FALSE, value |-> datetime(x.t)]
  ELSE [raised |-> TRUE, value |-> None]

(* A mount job that went through _mount_archive_thread: the thread wrote   *)
(* timestamp when it started and mount_point is in the metadata; a row     *)
(* written otherwise may have no timestamp (the column is nullable).       *)
(* mounted is what check_mount_status answers for its mount point; stored  *)
(* tells whether the row is in the jobs table.                             *)
MountRows ==
  [status : {"success", "failed"}, mounted : BOOLEAN, stored : {TRUE},
   timestamp : {datetime(utcnow - a) : a \in Ages} \cup {None}]

(* get_all_active_mounts: the list, in the order of the query *)
active_mounts ==
  {[job_id |-> j,
    mounted_at |-> IF mjobs[j].timestamp.kind # "none"
                   THEN isoformat(mjobs[j].timestamp) ELSE None] :
     j \in {i \in MountIds : /\ mjobs[i].stored
                              /\ mjobs[i].status = "success" /\ mjobs[i].mounted}}

IsOlderOrAsOld(mounted_at, cutoff_time) == mounted_at.t <= cutoff_time

(* mounted_at < cutoff_time *)
IsOlder(mounted_at, cutoff_time) == mounted_at.t < cutoff_time

get_orphaned_mounts(max_age_hours) ==
  LET cutoff_time == utcnow - max_age_hours
  IN  {mount \in active_mounts :
         /\ mount.mounted_at.kind # "none"
         /\ LET parsed == fromisoformat(mount.mounted_at)
            IN  IF parsed.raised THEN TRUE
                ELSE IsOlder(parsed.value, cutoff_time)}

call_get_orphaned_mounts(h) ==
  /\ called' = [fn |-> "get_orphaned_mounts", max_age_hours |-> h, force |-> FALSE,
                result |-> {mount.job_id : mount \in get_orphaned_mounts(h)}]
  /\ UNCHANGED <<job_vars, fs_vars, sched_vars, poll_vars, stats_vars, pass_vars, mjobs, ujobs>>

(* The job ids of a list of mounts, in the order of the list *)
RECURSIVE JobIds(_)
JobIds(S) ==
  IF S = {} THEN <<>>
  ELSE LET j == CHOOSE x \in S : \A y \in S : x <= y
       IN  <<j>> \o JobIds(S \ {j})

MaxUnmountJobs == 2

ReasonTag == "Orphaned mount cleanup"

(* The row unmount_orphaned adds for the mount job j, and whether it has   *)
(* passed the row to unmount_archive, which starts the thread.             *)
(* keys are the keys of its metadata, pc the position of its thread and    *)
(* signalled whether the thread has called os.kill.                        *)
UnmountJob(j, force) ==
  [job_type |-> "unmount", status |-> "pending", mount_job_id |-> j,
   reason |-> ReasonTag, started |-> force,
   keys |-> {"mount_job_id", "mount_point", "automated", "reason"},
   pc |-> "none", signalled |-> FALSE]

unmount_orphaned(max_age_hours, force) ==
  LET orphaned_mounts == JobIds({mount.job_id : mount \in get_orphaned_mounts(max_age_hours)})
  IN  /\ Len(ujobs) + Len(orphaned_mounts) <= MaxUnmountJobs
      /\ ujobs' = ujobs \o [k \in 1..Len(orphaned_mounts) |->
                               UnmountJob(orphaned_mounts[k], force)]
      /\ called' = [fn |-> "unmount_orphaned", max_age_hours |-> max_age_hours,
                    force |-> force,
                    result |-> {orphaned_mounts[k] : k \in 1..Len(orphaned_mounts)}]
      /\ UNCHANGED <<job_vars, fs_vars, sched_vars, poll_vars, stats_vars, pass_vars, mjobs>>

(* "Set job as running" of the thread unmount_archive has started *)
reaper_unmount_thread_start(k) ==
  /\ k \in 1..Len(ujobs)
  /\ ujobs[k].started /\ ujobs[k].status = "pending"
  /\ ujobs' = [ujobs EXCEPT ![k].status = "running", ![k].pc = "signal"]
  /\ UNCHANGED <<job_vars, fs_vars, sched_vars, poll_vars, stats_vars, pass_vars, mjobs, called>>

(* mount_pid = metadata.get('mount_pid'); "if mount_pid:" guards the two   *)
(* os.kill calls, after which the thread goes on to the unmount tools      *)
reaper_unmount_thread_signal(k) ==
  /\ k \in 1..Len(ujobs)
  /\ ujobs[k].pc = "signal"
  /\ ujobs' = [ujobs EXCEPT ![k].pc = "unmount",
                            ![k].signalled = "mount_pid" \in ujobs[k].keys]
  /\ UNCHANGED <<job_vars, fs_vars, sched_vars, poll_vars, stats_vars, pass_vars, mjobs, called>>

(* cleanup_orphaned_mounts with every orphaned mount unmounted, whatever   *)
(* AUTO_UNMOUNT_ORPHANED says                                              *)
cleanup_orphaned_mounts_always(max_age_hours, auto_unmount) ==
  LET orphaned == JobIds({mount.job_id : mount \in get_orphaned_mounts(max_age_hours)})
  IN  /\ Len(ujobs) + Len(orphaned) <= MaxUnmountJobs
      /\ ujobs' = ujobs \o [k \in 1..Len(orphaned) |-> UnmountJob(orphaned[k], FALSE)]
      /\ called' = [fn |-> "cleanup_orphaned_mounts", max_age_hours |-> max_age_hours,
                    auto_unmount |-> auto_unmount, force |-> FALSE,
                    result |-> {orphaned[k] : k \in 1..Len(orphaned)}]
      /\ UNCHANGED <<job_vars, fs_vars, sched_vars, poll_vars, stats_vars, pass_vars, mjobs>>

(* cleanup_orphaned_mounts, the function both jobs of the scheduler run,   *)
(* with MOUNT_MAX_AGE_HOURS and AUTO_UNMOUNT_ORPHANED of the configuration: *)
(* it returns when get_orphaned_mounts finds nothing, and calls            *)
(* unmount_orphaned(max_age_hours, force=False) if auto_unmount is set.    *)
cleanup_orphaned_mounts(max_age_hours, auto_unmount) ==
  LET orphaned == JobIds({mount.job_id : mount \in get_orphaned_mounts(max_age_hours)})
  IN  /\ IF Len(orphaned) > 0 /\ auto_unmount
         THEN /\ Len(ujobs) + Len(orphaned) <= MaxUnmountJobs
              /\ ujobs' = ujobs \o [k \in 1..Len(orphaned) |->
                                       UnmountJob(orphaned[k], FALSE)]
         ELSE UNCHANGED ujobs
      /\ called' = [fn |-> "cleanup_orphaned_mounts", max_age_hours |-> max_age_hours,
                    auto_unmount |-> auto_unmount, force |-> FALSE,
                    result |-> {orphaned[k] : k \in 1..Len(orphaned)}]
      /\ UNCHANGED <<job_vars, fs_vars, sched_vars, poll_vars, stats_vars, pass_vars, mjobs>>

(* delete_repository: the schedules and then every job of the repository   *)
(* are deleted by one query each (the mount jobs and the unmount jobs with *)
(* them), then the repository, and the session commits. The mount jobs of  *)
(* the model are the jobs of one repository, which exists (get_or_404)     *)
(* while it has jobs. Nothing is unmounted.                                *)
delete_repository ==
  /\ \E j \in MountIds : mjobs[j].stored
  /\ mjobs' = [j \in MountIds |-> [mjobs[j] EXCEPT !.stored = FALSE]]
  /\ ujobs' = <<>>
  /\ UNCHANGED <<job_vars, fs_vars, sched_vars, poll_vars, stats_vars, pass_vars, called>>

ReaperInit ==
  /\ JobIdle /\ FsIdle /\ SchedIdle /\ PollIdle /\ StatsIdle /\ PassIdle
  /\ mjobs \in [MountIds -> MountRows]
  /\ ujobs = <<>>
  /\ called = NoCall

ReaperNext ==
  \/ \E h \in MaxAges : call_get_orphaned_mounts(h)
  \/ \E h \in MaxAges, force \in BOOLEAN : unmount_orphaned(h, force)
  \/ \E k \in 1..MaxUnmountJobs : reaper_unmount_thread_start(k)
  \/ \E k \in 1..MaxUnmountJobs : reaper_unmount_thread_signal(k)
  \/ \E h \in MaxAges, auto_unmount \in BOOLEAN : cleanup_orphaned_mounts(h, auto_unmount)
  \/ delete_repository

ReaperSpec == ReaperInit /\ [][ReaperNext]_vars

(***************************************************************************)
(* The cleanup schedule, citadel/backup/mount_scheduler.py.  The scheduler *)
(* (APScheduler) runs a job when its next_run_time has come and then sets  *)
(* next_run_time to the next time of the trigger of the job: for an        *)
(* IntervalTrigger the previous time plus the interval.  A job added       *)
(* without next_run_time first runs one interval after the start.          *)
(***************************************************************************)
MaxClock == 725

DefaultIntervalHours == 12
StartupIntervalMinutes == 5
MinutesPerHour == 60

IntervalHours == {1, DefaultIntervalHours}

schedule_mount_cleanup(interval_hours) ==
  /\ IF mount_scheduler.running
     THEN UNCHANGED mount_scheduler
     ELSE mount_scheduler' =
            [running |-> TRUE,
             interval |-> [j \in SchedJobs |->
                            IF j = "mount_cleanup" THEN interval_hours * MinutesPerHour
                            ELSE StartupIntervalMinutes],
             next_run_time |-> [j \in SchedJobs |->
                            IF j = "mount_cleanup" THEN clock + interval_hours * MinutesPerHour
                            ELSE clock]]
  /\ UNCHANGED <<job_vars, fs_vars, reaper_vars, poll_vars, stats_vars, pass_vars, clock, runs, schedule>>

(* The scheduler runs cleanup_orphaned_mounts as job j *)
scheduler_run(j) ==
  /\ mount_scheduler.running
  /\ mount_scheduler.next_run_time[j] <= clock
  /\ runs' = [runs EXCEPT ![j] = @ + 1]
  /\ mount_scheduler' = [mount_scheduler EXCEPT
                           !.next_run_time[j] = @ + mount_scheduler.interval[j]]
  /\ UNCHANGED <<job_vars, fs_vars, reaper_vars, poll_vars, stats_vars, pass_vars, clock, schedule>>

(* A minute passes; the scheduler wakes up for every job that is due *)
tick ==
  /\ clock < MaxClock
  /\ mount_scheduler.running
  /\ \A j \in SchedJobs : mount_scheduler.next_run_time[j] > clock
  /\ clock' = clock + 1
  /\ UNCHANGED <<job_vars, fs_vars, reaper_vars, poll_vars, stats_vars, pass_vars, mount_scheduler, runs, schedule>>

SchedInit == JobIdle /\ FsIdle /\ ReaperIdle /\ SchedIdle /\ PollIdle /\ StatsIdle /\ PassIdle

SchedNext ==
  \/ \E h \in IntervalHours : schedule_mount_cleanup(h)
  \/ \E j \in SchedJobs : scheduler_run(j)
  \/ tick

SchedSpec == SchedInit /\ [][SchedNext]_vars

(***************************************************************************)
(* The job status handlers: api_get_job_status of citadel/backup/routes.py *)
(* and get_job_status of backup.py, both on /api/jobs/<id>?offset=k.  Here *)
(* log_output is the sequence of its characters, and the job that runs     *)
(* only ever appends to it.                                                *)
(***************************************************************************)
MaxLog == 2

LogChars == {"a", "b"}

(* s[k:] of a Python string, for k >= 0 *)
SliceFrom(s, k) == SubSeq(s, k + 1, Len(s))

(* job.log_output[offset:] if job.log_output and offset < len(job.log_output) else "" *)
api_get_job_status(offset) ==
  [offset |-> offset,
   log_output |-> IF Truthy(log_output) /\ offset < Len(log_output)
                  THEN SliceFrom(log_output, offset) ELSE <<>>,
   total_output_length |-> Len(log_output)]

(* if offset > 0 and log_output and len(log_output) > offset:              *)
(*     log_output = log_output[offset:]                                    *)
get_job_status(offset) ==
  [offset |-> offset,
   log_output |-> IF offset > 0 /\ Truthy(log_output) /\ Len(log_output) > offset
                  THEN SliceFrom(log_output, offset) ELSE log_output,
   total_output_length |-> Len(log_output)]

StatusHandler(offset) ==
  IF engine = "citadel" THEN api_get_job_status(offset) ELSE get_job_status(offset)

poll_rest_vars ==
  <<engine, job_type, status, completed_at, job_metadata, runner, cancel, target,
    pipes, printed, reader, fs_vars, reaper_vars, sched_vars, pass_vars,
    stats_vars>>

(* The running job appends a character to its output *)
job_appends(c) ==
  /\ Len(log_output) < MaxLog
  /\ log_output' = Append(log_output, c)
  /\ UNCHANGED <<poll_rest_vars, answer, received>>

(* A request with any offset *)
request_status(k) ==
  /\ answer' = StatusHandler(k)
  /\ UNCHANGED <<poll_rest_vars, log_output, received>>

(* The polling client: its offset is the length of what it has received,  *)
(* and it appends the log_output of the response to that.                  *)
client_poll ==
  /\ Len(received) <= MaxLog
  /\ answer' = StatusHandler(Len(received))
  /\ received' = received \o answer'.log_output
  /\ UNCHANGED <<poll_rest_vars, log_output>>

PollInit ==
  /\ engine \in {"citadel", "legacy"}
  /\ job_type = "create"
  /\ status = "running"
  /\ completed_at = "null"
  /\ log_output = <<>>
  /\ job_metadata = NoMetadata
  /\ target = NoTarget
  /\ runner = [r \in Runners |-> IdleRunner]
  /\ cancel = [pc |-> "idle", count |-> 0, job_log |-> <<>>, result |-> "none"]
  /\ pipes = [s \in Streams |-> <<>>]
  /\ printed = [stdout |-> 0, stderr |-> 0, stats |-> FALSE]
  /\ reader = [s \in Streams |-> [pc |-> "idle", line |-> "", job_log |-> <<>>]]
  /\ FsIdle /\ ReaperIdle /\ SchedIdle /\ PollIdle /\ StatsIdle /\ PassIdle

PollNext ==
  \/ \E c \in LogChars : job_appends(c)
  \/ \E k \in 0..(MaxLog + 1) : request_status(k)
  \/ client_poll

PollSpec == PollInit /\ [][PollNext]_vars

(***************************************************************************)
(* The passphrase of the repository, citadel/backup/utils.py and           *)
(* citadel/backup/mount.py.  Two runs of the same job on the same          *)
(* repository, one for each of two stored passphrases, take every step     *)
(* together and meet the same conditions outside the program.  A text is   *)
(* the sequence of its parts; the parts that come from the repository, the *)
(* job or the configuration are the same in both runs.                     *)
(***************************************************************************)
TwoRuns == {1, 2}

(* "" is no passphrase: repository.passphrase is None or empty *)
Passphrases == {"", "pw_a", "pw_b", "pw_c"}

PassKinds == CommandKinds \cup {"mount"}

NoProcess == [output |-> <<>>, exit_code |-> 0, ran |-> FALSE]

Created(passphrase) ==
  [passphrase |-> passphrase, pc |-> "created", cmd |-> <<>>, env |-> <<>>,
   process |-> NoProcess, status |-> "created", log_output |-> <<>>,
   metadata |-> NoMetadata, lines |-> <<>>]

(* cmd, by job type *)
Command(kind) ==
  CASE kind = "create" -> <<"borg", "create", "repo_path::archive_name", "source_path", "--stats">>
    [] kind = "list"   -> <<"borg", "list", "repo_path", "--json">>
    [] kind = "prune"  -> <<"borg", "prune", "repo_path", "--keep-daily", "7",
                            "--keep-weekly", "4", "--keep-monthly", "6", "--stats">>
    [] OTHER           -> <<"borg", "mount", "repo_path::archive_name", "mount_point">>

(* What the thread adds to the copy of os.environ *)
Environment(encryption, passphrase) ==
  IF encryption /\ passphrase # "" THEN <<"BORG_PASSPHRASE", passphrase>> ELSE <<>>

debug_executing_with_env(r) ==
  <<IF job_type = "mount" THEN "Starting mount process:" ELSE "DEBUG: Executing command:">>
    \o r.cmd \o r.env

(* print(f"DEBUG: Executing command: {' '.join(cmd)}") and                 *)
(* logger.info(f"Starting mount process: {' '.join(cmd)}")                 *)
debug_executing(r) ==
  <<IF job_type = "mount" THEN "Starting mount process:" ELSE "DEBUG: Executing command:">>
    \o r.cmd

(* The thread up to the start of the process: status running, cmd and env  *)
(* are built and the command is logged.                                    *)
Built(r) ==
  LET b == [r EXCEPT !.pc = "built", !.status = "running",
                     !.cmd = Command(job_type),
                     !.env = Environment(repository.encryption, r.passphrase)]
  IN  [b EXCEPT !.lines = r.lines \o
         (IF job_type = "mount" THEN <<debug_executing(b)>>
          ELSE <<<<"DEBUG: Running job of type", job_type, "for repository", "repo_name">>,
                 debug_executing(b)>>)]

(* subprocess.Popen raises: the except clauses write the job *)
SpawnFailed(r) ==
  [r EXCEPT !.pc = "done", !.status = "failed",
            !.log_output = IF job_type = "mount" THEN <<MountFailedNote>> ELSE <<ErrorNote>>,
            !.lines = Append(r.lines, <<"Exception:", "exception">>)]

(* borg with the environment of run r: it does what the conditions outside *)
(* make it do (outcome) when the repository is not encrypted or the        *)
(* environment holds the key of the repository, and otherwise reports the  *)
(* passphrase as incorrect and exits with 2.                               *)
Accepted(r) == ~repository.encryption \/ r.env = <<"BORG_PASSPHRASE", repository.key>>

Borg(r, outcome) ==
  IF Accepted(r) THEN [output |-> outcome.output, exit_code |-> outcome.exit_code, ran |-> TRUE]
  ELSE [output |-> <<"passphrase supplied in BORG_PASSPHRASE is incorrect.">>,
        exit_code |-> 2, ran |-> TRUE]

CodeText(code) == CASE code = 0 -> "0" [] code = 1 -> "1" [] OTHER -> "2"

(* "Update job with results" of _run_backup_job_thread *)
CommandDone(r, p) ==
  [r EXCEPT !.pc = "done", !.process = p,
            !.status = IF p.exit_code = 0 THEN "success" ELSE "failed",
            !.log_output = FinalLog(p.output),
            !.metadata = IF p.exit_code = 0
                         THEN FinalMetadata(job_type, r.metadata, p.output) ELSE r.metadata,
            !.lines = r.lines \o
               <<<<"DEBUG: Command completed with exit code", CodeText(p.exit_code)>>,
                 <<"DEBUG: First 200 chars of output:">> \o p.output>>]

(* The poll loop and the success branch of _mount_archive_thread *)
MountDone(r, p) ==
  LET md == [r.metadata EXCEPT !.mount_pid = TRUE, !.mount_status = "mounting"]
      failed == (\E i \in 1..Len(p.output) : IsMountError(p.output[i])) \/ p.exit_code # 0
  IN  [r EXCEPT !.pc = "done", !.process = p,
                !.status = IF failed THEN "failed" ELSE "success",
                !.log_output = IF failed THEN p.output ELSE Append(p.output, MountSuccessNote),
                !.metadata = IF failed THEN md ELSE [md EXCEPT !.mount_status = "mounted"],
                !.lines = Append(r.lines,
                            IF failed THEN <<"Mount error or mount failed">>
                            ELSE <<"Archive", "archive_name", "successfully mounted at", "mount_point">>)]

(* The mock branch of _run_backup_job_thread runs no process *)
Mocked(r) ==
  CommandDone([r EXCEPT !.lines = Append(@, <<"DEBUG: Running in mock mode">>)],
              [output |-> MockOutput(job_type), exit_code |-> MockExitCode(job_type),
               ran |-> FALSE])

Outcomes == [output : {<<>>, <<"line">>, <<"error_line">>, <<"stats_ok">>}, exit_code : {0, 1}]

pass_build ==
  /\ \A i \in TwoRuns : pair[i].pc = "created"
  /\ pair' = [i \in TwoRuns |-> Built(pair[i])]
  /\ UNCHANGED <<job_vars, fs_vars, reaper_vars, sched_vars, poll_vars, stats_vars, repository>>

pass_mock ==
  /\ job_type \in CommandKinds
  /\ \A i \in TwoRuns : pair[i].pc = "built"
  /\ pair' = [i \in TwoRuns |-> Mocked(pair[i])]
  /\ UNCHANGED <<job_vars, fs_vars, reaper_vars, sched_vars, poll_vars, stats_vars, repository>>

pass_spawn ==
  /\ \A i \in TwoRuns : pair[i].pc = "built"
  /\ \E raised \in BOOLEAN :
       pair' = [i \in TwoRuns |->
                  IF raised THEN SpawnFailed(pair[i]) ELSE [pair[i] EXCEPT !.pc = "spawned"]]
  /\ UNCHANGED <<job_vars, fs_vars, reaper_vars, sched_vars, poll_vars, stats_vars, repository>>

pass_complete ==
  /\ \A i \in TwoRuns : pair[i].pc = "spawned"
  /\ \E outcome \in Outcomes :
       pair' = [i \in TwoRuns |->
                  IF job_type = "mount" THEN MountDone(pair[i], Borg(pair[i], outcome))
                  ELSE CommandDone(pair[i], Borg(pair[i], outcome))]
  /\ UNCHANGED <<job_vars, fs_vars, reaper_vars, sched_vars, poll_vars, stats_vars, repository>>

PassInit ==
  /\ engine = "citadel"
  /\ job_type \in PassKinds
  /\ status = "none"
  /\ completed_at = "null"
  /\ log_output = <<>>
  /\ job_metadata = NoMetadata
  /\ target = NoTarget
  /\ runner = [r \in Runners |-> IdleRunner]
  /\ cancel = [pc |-> "idle", count |-> 0, job_log |-> <<>>, result |-> "none"]
  /\ pipes = [s \in Streams |-> <<>>]
  /\ printed = [stdout |-> 0, stderr |-> 0, stats |-> FALSE]
  /\ reader = [s \in Streams |-> [pc |-> "idle", line |-> "", job_log |-> <<>>]]
  /\ FsIdle /\ ReaperIdle /\ SchedIdle /\ PollIdle /\ StatsIdle
  /\ repository \in [encryption : BOOLEAN, key : Passphrases \ {""}]
  /\ \E p1, p2 \in Passphrases :
       /\ p1 # p2
       /\ pair = [i \in TwoRuns |-> Created(IF i = 1 THEN p1 ELSE p2)]

PassNext ==
  \/ pass_build
  \/ pass_mock
  \/ pass_spawn
  \/ pass_complete

PassSpec == PassInit /\ [][PassNext]_vars

(***************************************************************************)
(* force_unmount_all of mount_management.py, the command force-unmount-all *)
(* of mount_cli.py.  It works on the mount table of the system and on no   *)
(* job record.  A mount point is the sequence of its characters; "a"       *)
(* stands for a letter of a name.                                          *)
(***************************************************************************)
MaxMountLen == 3
MaxSystemMounts == 2

MountChars == {"a", "/"}

MountPoints == SeqsUpTo(MountChars, MaxMountLen) \ {<<>>}

(* MOUNT_BASE_DIR of the configuration, and the same with a closing "/" *)
BaseDirs == {<<"a">>, <<"a", "/">>}

(* get_system_mounts: one entry per line of the output of mount, the mount  *)
(* point being the third word of the line (a mount point of the model      *)
(* holds no space).                                                        *)
get_system_mounts == {[mount_point |-> m] : m \in mtab}

(* str.startswith *)
startswith(text, prefix) == IsPrefix(prefix, text)

(* "Filter for mounts in the Citadel mount directory" *)
citadel_mounts(base_dir) ==
  {m \in get_system_mounts : startswith(m.mount_point, base_dir)}

(* What the two commands do to one mount point: fusermount -u -z detaches  *)
(* it; or it does not and umount -f does; or neither does; or one of the   *)
(* two subprocess.run raises (command missing, timeout), with the mount    *)
(* point detached by then or not.                                          *)
ForceOutcomes == {"fusermount", "umount", "neither", "raised", "raised_detached"}

Detached == {"fusermount", "umount", "raised_detached"}

(* The entry of results for one mount point: "unmounted" after a check of  *)
(* os.path.ismount that answered False, "failed" after the second check    *)
(* answered True, "error" from the except clause.                          *)
force_result(mount_point, outcome) ==
  [mount_point |-> mount_point,
   status |-> CASE outcome \in {"fusermount", "umount"} -> "unmounted"
                [] outcome = "neither" -> "failed"
                [] OTHER -> "error"]

(* results is the list of the entries in the order of the mount table; the *)
(* model keeps the set.                                                    *)
force_unmount_all(base_dir) ==
  LET todo == {m.mount_point : m \in citadel_mounts(base_dir)}
  IN  /\ \E outcome \in [todo -> ForceOutcomes] :
            /\ mtab' = mtab \ {m \in todo : outcome[m] \in Detached}
            /\ forced' = [base_dir |-> base_dir,
                          results |-> {force_result(m, outcome[m]) : m \in todo}]
      /\ UNCHANGED <<job_vars, reaper_vars, sched_vars, poll_vars, stats_vars, pass_vars,
                     dirs, checked>>

(* The mount table when the command is given: any mounts of the system *)
ForceInit ==
  /\ JobIdle /\ ReaperIdle /\ SchedIdle /\ PollIdle /\ StatsIdle /\ PassIdle
  /\ \E f \in [1..MaxSystemMounts -> MountPoints], n \in 0..MaxSystemMounts :
        mtab = {f[i] : i \in 1..n}
  /\ dirs = mtab
  /\ checked = NoCheck
  /\ forced = NoForce

ForceNext == \E base_dir \in BaseDirs : force_unmount_all(base_dir)

ForceSpec == ForceInit /\ [][ForceNext]_vars

(***************************************************************************)
(* Size tokens and their parsers: parse_size of backup.py (and of          *)
(* backup_fixed.py, the same text), extract_size_bytes and parse_size of   *)
(* citadel/backup/utils.py.                                                *)
(*                                                                         *)
(* A size token is the text "<value> <unit>" with a value of two decimals, *)
(* kept as the number of hundredths.  A number of bytes is kept exactly,   *)
(* as its digits to the base 1024 (lowest first) and its hundredths: the   *)
(* value of [digits |-> d, frac |-> f] is the sum of d[i] * 1024^(i-1)     *)
(* plus f / 100.  Python computes with floats, which hold the products of  *)
(* the model up to their last bit; an int holds them exactly.              *)
(***************************************************************************)
Units == <<"B", "KB", "MB", "GB", "TB">>

(* The units of the tokens: those of the parsers, and kB as borg prints it *)
TokenUnits == {Units[k] : k \in 1..Len(Units)} \cup {"kB"}

(* 0.00, 0.07, 1.00, 500.00, 512.00, 900.00 *)
TokenValues == {0, 7, 100, 50000, 51200, 90000}

SizeTokens == [value : TokenValues, unit : TokenUnits]

PyFloat(x) == [type |-> "float", num |-> x]

(* float(parts[0]) of the text of a value *)
float(value) ==
  [digits |-> [i \in Places |-> IF i = 1 THEN value \div 100 ELSE 0],
   frac |-> value % 100]

(* x * 1024 *)
Times1024(x) ==
  [digits |-> [i \in Places |-> IF i = 1 THEN (x.frac * 1024) \div 100
                                ELSE x.digits[i - 1]],
   frac |-> (x.frac * 1024) % 100]

(* x * 1024 * ... * 1024, k factors, from the left *)
RECURSIVE TimesPow(_, _)
TimesPow(x, k) == IF k = 0 THEN x ELSE Times1024(TimesPow(x, k - 1))

(* int(x) of a float that is not negative *)
int(x) == [x EXCEPT !.frac = 0]

(* str.upper of a unit *)
upper(unit) == IF unit = "kB" THEN "KB" ELSE unit

(* parse_size of backup.py: the unit is compared as written, a unit it     *)
(* does not know leaves the value, an exception gives 0.  A token of the   *)
(* model splits in two and its value is the text of a float.               *)
legacy_parse_size(size_str) ==
  LET value == float(size_str.value)
      unit == size_str.unit
  IN  CASE unit = "B"  -> PyFloat(value)
        [] unit = "KB" -> PyFloat(TimesPow(value, 1))
        [] unit = "MB" -> PyFloat(TimesPow(value, 2))
        [] unit = "GB" -> PyFloat(TimesPow(value, 3))
        [] unit = "TB" -> PyFloat(TimesPow(value, 4))
        [] OTHER       -> PyFloat(value)

(* extract_size_bytes of citadel/backup/utils.py, the function of the      *)
(* module and the one nested in extract_stats_from_output (the same text)  *)
extract_size_bytes(size_str) ==
  IF size_str = NoToken THEN PyInt(Zero)
  ELSE LET value == float(size_str.value)
           unit == upper(size_str.unit)
       IN  CASE unit = "B"  -> PyFloat(value)
             [] unit = "KB" -> PyFloat(TimesPow(value, 1))
             [] unit = "MB" -> PyFloat(TimesPow(value, 2))
             [] unit = "GB" -> PyFloat(TimesPow(value, 3))
             [] unit = "TB" -> PyFloat(TimesPow(value, 4))
             [] OTHER       -> PyInt(Zero)

(* parse_size of citadel/backup/utils.py.  Every unit of the tokens is     *)
(* known after upper(), so "Unknown unit" is not raised.                   *)
parse_size(size_str) ==
  IF size_str = NoToken THEN PyInt(Zero)
  ELSE LET value == float(size_str.value)
           unit == upper(size_str.unit)
       IN  CASE unit = "B"  -> PyInt(int(value))
             [] unit = "KB" -> PyInt(int(TimesPow(value, 1)))
             [] unit = "MB" -> PyInt(int(TimesPow(value, 2)))
             [] unit = "GB" -> PyInt(int(TimesPow(value, 3)))
             [] unit = "TB" -> PyInt(int(TimesPow(value, 4)))

SizeParsers == {"backup.parse_size", "utils.extract_size_bytes", "utils.parse_size"}

Parse(parser, size_str) ==
  CASE parser = "backup.parse_size"        -> legacy_parse_size(size_str)
    [] parser = "utils.extract_size_bytes" -> extract_size_bytes(size_str)
    [] parser = "utils.parse_size"         -> parse_size(size_str)

call_parse_size(parser, size_str) ==
  /\ sized' = [parser |-> parser, size_str |-> size_str,
                result |-> Parse(parser, size_str)]
  /\ UNCHANGED <<job_vars, fs_vars, reaper_vars, sched_vars, poll_vars, pass_vars,
                 extracted, tagged>>

SizeInit ==
  /\ JobIdle /\ FsIdle /\ ReaperIdle /\ SchedIdle /\ PollIdle /\ PassIdle
  /\ StatsIdle

SizeNext == \E parser \in SizeParsers, size_str \in SizeTokens : call_parse_size(parser, size_str)

SizeSpec == SizeInit /\ [][SizeNext]_vars

(***************************************************************************)
(* The stats extractors on the text of an output: extract_stats_from_output *)
(* of citadel/backup/utils.py and of backup.py (backup_fixed.py has the     *)
(* same text), with the sizes and ratios they compute.                     *)
(*                                                                         *)
(* An output is the sequence of its lines.  A line is its kind, whether it *)
(* starts with "[WARN] ", and what it holds: the wording of a Duration     *)
(* line, the three size tokens of a row of the table.                      *)
(*   dash          the delimiter of 78 dashes                               *)
(*   text          a line without colon                                     *)
(*   duration      "Duration: 300.00 seconds" or                            *)
(*                 "Duration: 3 minutes 45.00 seconds"                      *)
(*   nfiles        "Number of files: 12345"                                 *)
(*   header        "Original size  Compressed size  Deduplicated size"      *)
(*   this_archive  "This archive: <size> <size> <size>"                     *)
(*   all_archives  "All archives: <size> <size> <size>"                     *)
(*   chunk_index   "Chunk index: 50000 150000"                              *)
(*   residue       the "[WARN] " that split leaves in front of a delimiter  *)
(***************************************************************************)
Line(kind) == [tag |-> FALSE, kind |-> kind, form |-> "", row |-> <<>>]

Dash == Line("dash")

Duration(form) == [Line("duration") EXCEPT !.form = form]

Row(kind, row) == [Line(kind) EXCEPT !.row = row]

Residue == Line("residue")

DurationForms == {"seconds", "minutes"}

(* The rows of the outputs: sizes of 0 B, 1.00 GB, 512.00 MB, 900.00 MB,   *)
(* 500.00 MB                                                               *)
RowTokens ==
  {[value |-> 0, unit |-> "B"], [value |-> 100, unit |-> "GB"],
   [value |-> 51200, unit |-> "MB"], [value |-> 90000, unit |-> "MB"],
   [value |-> 50000, unit |-> "MB"]}

Rows == [1..3 -> RowTokens]

(* "All archives:       5.00 GB              4.50 GB              2.50 GB" *)
AllRow ==
  <<[value |-> 500, unit |-> "GB"], [value |-> 450, unit |-> "GB"],
    [value |-> 250, unit |-> "GB"]>>

(* One block between two delimiters, as in test_fixed_extract.py *)
OneBlock(form, row) ==
  <<Line("text"), Dash, Duration(form), Line("nfiles"), Line("header"),
    Row("this_archive", row), Row("all_archives", AllRow), Line("text"),
    Line("chunk_index"), Dash, Line("text")>>

(* Two blocks between three delimiters, as borg create --stats prints and  *)
(* as the mock output of _run_backup_job_thread has it                     *)
TwoBlocks(form, row) ==
  <<Dash, Duration(form), Line("nfiles"), Dash, Line("header"),
    Row("this_archive", row), Row("all_archives", AllRow), Line("text"),
    Line("chunk_index"), Dash>>

(* The first and the last delimiter of an output *)
DashAt(output) == {i \in 1..Len(output) : output[i].kind = "dash"}

InBlock(output, i) ==
  \E a, b \in DashAt(output) : a <= i /\ i <= b

(* "[WARN] " in front of every line of the block, delimiters included *)
Warn(output) ==
  [i \in 1..Len(output) |->
     IF InBlock(output, i) THEN [output[i] EXCEPT !.tag = TRUE] ELSE output[i]]

(* The same output without the "[WARN] " *)
Unwarn(output) == [i \in 1..Len(output) |-> [output[i] EXCEPT !.tag = FALSE]]

PlainOutputs ==
  {OneBlock(form, row) : form \in DurationForms, row \in Rows}
    \cup {TwoBlocks(form, row) : form \in DurationForms, row \in Rows}
    \cup {<<Line("text")>>}

Outputs == PlainOutputs \cup {Warn(output) : output \in PlainOutputs}

(* dash_line in output, and f"[WARN] {dash_line}" in output *)
HasDash(output) == \E i \in 1..Len(output) : output[i].kind = "dash"

HasWarnDash(output) == \E i \in 1..Len(output) : output[i].kind = "dash" /\ output[i].tag

(* output.split(sep) with sep the delimiter ("dash") or the delimiter with *)
(* "[WARN] " in front ("warn_dash"): the sections, each the lines it holds. *)
(* Splitting at the bare delimiter leaves the "[WARN] " of a tagged        *)
(* delimiter at the end of the section before it.                          *)
RECURSIVE split(_, _)
split(output, sep) ==
  IF output = <<>> THEN << <<>> >>
  ELSE LET l == Head(output)
           rest == split(Tail(output), sep)
       IN  IF l.kind = "dash" /\ (sep = "dash" \/ l.tag)
           THEN << IF sep = "dash" /\ l.tag THEN <<Residue>> ELSE <<>> >> \o rest
           ELSE << <<l>> \o Head(rest) >> \o Tail(rest)

(* Values of a stats dictionary: a string, a size string ("900.00 MB"),    *)
(* an int, a float.  A float is kept exactly, as the quotient num / den.   *)
One == [Zero EXCEPT !.digits[1] = 1]

StrValue == [type |-> "str", size_str |-> NoToken, num |-> Zero, den |-> One]

SizeStrValue(size_str) == [StrValue EXCEPT !.type = "size_str", !.size_str = size_str]

IntValue(x) == [StrValue EXCEPT !.type = "int", !.num = x]

FloatValue(x, y) == [StrValue EXCEPT !.type = "float", !.num = x, !.den = y]

(* The number n, an int below 2^31 *)
Num(n) ==
  [digits |-> [i \in Places |-> IF i = 1 THEN n % 1024
                                ELSE IF i = 2 THEN (n \div 1024) % 1024
                                ELSE IF i = 3 THEN (n \div 1048576) % 1024
                                ELSE IF i = 4 THEN n \div 1073741824
                                ELSE 0],
   frac |-> 0]

(* x * c for an int c *)
RECURSIVE Carry(_, _, _)
Carry(x, c, i) ==
  IF i = 0 THEN (x.frac * c) \div 100
  ELSE (x.digits[i] * c + Carry(x, c, i - 1)) \div 1024

TimesInt(x, c) ==
  [digits |-> [i \in Places |-> (x.digits[i] * c + Carry(x, c, i - 1)) % 1024],
   frac |-> (x.frac * c) % 100]

(* x > 0 *)
Positive(x) == x # Zero

(* A key of a stats dictionary; one made of a line that starts with        *)
(* "[WARN] " starts with "[warn]_"                                         *)
Key(name) == [tag |-> FALSE, name |-> name]

Entry(name, value) == [key |-> Key(name), value |-> value]

Has(stats, name) == \E e \in stats : e.key = Key(name)

Get(stats, name) == (CHOOSE e \in stats : e.key = Key(name)).value

(* parts[0].strip().lower().replace(' ', '_') of the lines with a colon *)
LineKey(l) ==
  [tag |-> l.tag,
   name |-> CASE l.kind = "duration" -> "duration"
              [] l.kind = "nfiles" -> "number_of_files"
              [] l.kind = "chunk_index" -> "chunk_index"
              [] OTHER -> ""]

NumberOfFiles == 12345

(* 3 minutes 45.00 seconds: minutes * 60 + seconds *)
MinutesForm == [minutes |-> 3, seconds |-> 45]

SecondsPerMinute == 60

(* 300.00 seconds *)
SecondsForm == 300

(* "Extract other key statistics from the output": what a line adds *)
key_value(l) ==
  IF l.kind \notin {"duration", "nfiles", "chunk_index"} THEN {}
  ELSE LET key == LineKey(l)
       IN  IF key = Key("number_of_files")
           THEN {Entry("nfiles", IntValue(Num(NumberOfFiles)))}
           ELSE IF key = Key("duration")
           THEN IF l.form = "minutes"
                THEN {Entry("duration",
                            FloatValue(Num(MinutesForm.minutes * SecondsPerMinute
                                             + MinutesForm.seconds), One))}
                ELSE {Entry("duration", StrValue)}
           ELSE IF l.kind = "nfiles"
           THEN {[key |-> key, value |-> IntValue(Num(NumberOfFiles))]}
           ELSE {[key |-> key, value |-> StrValue]}

(* The last line of a kind in a section, <<>> when there is none *)
LastOf(lines, kind) ==
  LET idx == {i \in 1..Len(lines) : lines[i].kind = kind}
  IN  IF idx = {} THEN <<>>
      ELSE <<lines[CHOOSE i \in idx : \A k \in idx : k <= i]>>

(* cols[0] + " " + cols[1], ... of a row: the three size strings *)
row_sizes(prefix, found) ==
  IF found = <<>> THEN {}
  ELSE {Entry(prefix \o "_original_size", SizeStrValue(found[1].row[1])),
        Entry(prefix \o "_compressed_size", SizeStrValue(found[1].row[2])),
        Entry(prefix \o "_deduplicated_size", SizeStrValue(found[1].row[3]))}

(* "Calculate compression and deduplication ratios" of citadel *)
ratio(stats, name, numerator, denominator) ==
  IF Has(stats, numerator) /\ Has(stats, denominator)
  THEN LET original_bytes == extract_size_bytes(Get(stats, numerator).size_str).num
           other_bytes == extract_size_bytes(Get(stats, denominator).size_str).num
       IN  IF Positive(original_bytes) /\ Positive(other_bytes)
           THEN {Entry(name, FloatValue(original_bytes, other_bytes))}
           ELSE {}
  ELSE {}

(* extract_stats_from_output of citadel/backup/utils.py.  Its try blocks   *)
(* catch what the parsing raises.                                          *)
stats_of_output(output) ==
  LET sections == IF HasDash(output) THEN split(output, "dash")
                  ELSE IF HasWarnDash(output) THEN split(output, "warn_dash")
                  ELSE <<>>
      with_rows == {i \in 1..Len(sections) :
                      \E k \in 1..Len(sections[i]) :
                        sections[i][k].kind \in {"this_archive", "all_archives"}}
  IN  IF with_rows = {} THEN {}
      ELSE LET lines == sections[CHOOSE i \in with_rows : \A k \in with_rows : i <= k]
               header_line == \E k \in 1..Len(lines) : lines[k].kind = "header"
               sizes == IF header_line
                        THEN row_sizes("this_archive", LastOf(lines, "this_archive"))
                               \cup row_sizes("all_archives", LastOf(lines, "all_archives"))
                        ELSE {}
               stats == sizes \cup UNION {key_value(lines[k]) : k \in 1..Len(lines)}
           IN  stats
                 \cup ratio(stats, "compression_ratio", "this_archive_original_size",
                            "this_archive_compressed_size")
                 \cup ratio(stats, "deduplication_ratio", "this_archive_original_size",
                            "this_archive_deduplicated_size")

extract_stats_of_text(output) == [raised |-> FALSE, stats |-> stats_of_output(output)]

(* backup.py: what a line of the section adds; the "[WARN] " in front is   *)
(* cut off first.  A row has eight words.                                  *)
legacy_line(l) ==
  CASE l.kind = "duration" -> {Entry("duration", FloatValue(Num(SecondsForm), One))}
    [] l.kind = "nfiles" -> {Entry("nfiles", IntValue(Num(NumberOfFiles)))}
    [] l.kind = "this_archive" ->
         {Entry("original_size", FloatValue(legacy_parse_size(l.row[1]).num, One)),
          Entry("compressed_size", FloatValue(legacy_parse_size(l.row[2]).num, One)),
          Entry("deduplicated_size", FloatValue(legacy_parse_size(l.row[3]).num, One))}
    [] l.kind = "all_archives" ->
         {Entry("all_archives_original_size", FloatValue(legacy_parse_size(l.row[1]).num, One)),
          Entry("all_archives_compressed_size", FloatValue(legacy_parse_size(l.row[2]).num, One)),
          Entry("all_archives_deduplicated_size", FloatValue(legacy_parse_size(l.row[3]).num, One))}
    [] OTHER -> {}

(* float("3 minutes 45.00") raises ValueError, which nothing catches *)
legacy_line_raises(l) == l.kind = "duration" /\ l.form = "minutes"

Percent == 100

(* stats[other] / stats["original_size"] * 100 *)
legacy_ratio(stats, name, other) ==
  IF Has(stats, "original_size") /\ Has(stats, other)
     /\ Positive(Get(stats, "original_size").num)
  THEN {Entry(name, FloatValue(TimesInt(Get(stats, other).num, Percent),
                               Get(stats, "original_size").num))}
  ELSE {}

(* extract_stats_from_output of backup.py and backup_fixed.py *)
legacy_extract_stats_of_text(output) ==
  LET sections == IF HasDash(output) THEN split(output, "dash")
                  ELSE IF HasWarnDash(output) THEN split(output, "warn_dash")
                  ELSE <<>>
      lines == IF Len(sections) >= 3 THEN sections[2] ELSE <<>>
      stats == UNION {legacy_line(lines[k]) : k \in 1..Len(lines)}
  IN  IF \E k \in 1..Len(lines) : legacy_line_raises(lines[k])
      THEN [raised |-> TRUE, stats |-> {}]
      ELSE [raised |-> FALSE,
            stats |-> stats
                        \cup legacy_ratio(stats, "compression_ratio", "compressed_size")
                        \cup legacy_ratio(stats, "deduplication_ratio", "deduplicated_size")]

Extractors == {"utils.extract_stats_from_output", "backup.extract_stats_from_output"}

Extract(extractor, output) ==
  IF extractor = "utils.extract_stats_from_output" THEN extract_stats_of_text(output)
  ELSE legacy_extract_stats_of_text(output)

call_extract_stats_from_output(extractor, output) ==
  /\ extracted' = [extractor |-> extractor, output |-> output, job_status |-> "none",
                   result |-> Extract(extractor, output)]
  /\ UNCHANGED <<job_vars, fs_vars, reaper_vars, sched_vars, poll_vars, pass_vars,
                 sized, tagged>>

(* The mock output of a create job: 3 minutes 45.00 seconds, and           *)
(* "This archive:       1.00 GB            900.00 MB            500.00 MB" *)
MockCreateOutput ==
  TwoBlocks("minutes",
            <<[value |-> 100, unit |-> "GB"], [value |-> 90000, unit |-> "MB"],
              [value |-> 50000, unit |-> "MB"]>>)

(* A create job in mock mode, from run_backup_job to the commit of         *)
(* _run_backup_job_thread: exit code 0, status success, and the stats of   *)
(* the mock output in the metadata.                                        *)
mock_create_job ==
  /\ extracted' = [extractor |-> "utils.extract_stats_from_output",
                   output |-> MockCreateOutput, job_status |-> "success",
                   result |-> extract_stats_of_text(MockCreateOutput)]
  /\ UNCHANGED <<job_vars, fs_vars, reaper_vars, sched_vars, poll_vars, pass_vars,
                 sized, tagged>>

StatsInit ==
  /\ JobIdle /\ FsIdle /\ ReaperIdle /\ SchedIdle /\ PollIdle /\ PassIdle
  /\ StatsIdle

StatsNext ==
  \/ \E extractor \in Extractors, output \in Outputs :
       call_extract_stats_from_output(extractor, output)
  \/ mock_create_job

StatsSpec == StatsInit /\ [][StatsNext]_vars

(***************************************************************************)
(* PruneSpec: run_scheduled_backup of citadel/schedules/utils.py for an    *)
(* active schedule with its source and repository.  The job of the engine  *)
(* is the create job the run has added; r1 is the thread run_backup_job    *)
(* starts for it.  schedule.pc is the position of the run and then of the  *)
(* create_prune_job thread, schedule.prune_job the status of the prune job *)
(* once it is added.                                                       *)
(***************************************************************************)
BackupRunner == "r1"

(* "Run the backup job": run_backup_job(job.id) *)
run_scheduled_backup ==
  /\ schedule.pc = "start"
  /\ run_backup_job(BackupRunner)

(* "if schedule.auto_prune:" after run_backup_job has returned: the        *)
(* create_prune_job thread is started                                      *)
run_scheduled_backup_auto_prune ==
  /\ schedule.pc = "start"
  /\ runner[BackupRunner].pc # "idle"
  /\ schedule' = [schedule EXCEPT !.pc = IF schedule.auto_prune THEN "thread" ELSE "done"]
  /\ UNCHANGED <<job_vars, fs_vars, reaper_vars, poll_vars, stats_vars, pass_vars,
                 clock, mount_scheduler, runs>>

(* create_prune_job: the job is loaded once; if its status is success the  *)
(* prune job is added and run_backup_job(prune_job.id) sets it running     *)
create_prune_job ==
  /\ schedule.pc = "thread"
  /\ schedule' = [schedule EXCEPT !.pc = "done",
                                  !.prune_job = IF status = "success" THEN "running" ELSE @]
  /\ UNCHANGED <<job_vars, fs_vars, reaper_vars, poll_vars, stats_vars, pass_vars,
                 clock, mount_scheduler, runs>>

PruneInit ==
  /\ InitCitadel /\ job_type = "create"
  /\ FsIdle /\ ReaperIdle /\ CleanupIdle /\ PollIdle /\ StatsIdle /\ PassIdle
  /\ \E auto_prune \in BOOLEAN :
       schedule = [pc |-> "start", auto_prune |-> auto_prune, prune_job |-> "none"]

PruneNext ==
  \/ run_scheduled_backup
  \/ run_scheduled_backup_auto_prune
  \/ create_prune_job
  \/ run_backup_job_thread_load(BackupRunner)
  \/ run_backup_job_thread_exec(BackupRunner)
  \/ run_backup_job_thread_communicate(BackupRunner)
  \/ run_backup_job_thread_timeout(BackupRunner)
  \/ run_backup_job_thread_finalize(BackupRunner)
  \/ run_backup_job_thread_except(BackupRunner)
  \/ process_print(BackupRunner)
  \/ process_exit(BackupRunner)

PruneSpec == PruneInit /\ [][PruneNext]_vars

(* The threads run, and the borg process prints and ends *)
PruneFairSpec == PruneSpec /\ WF_vars(PruneNext)

(***************************************************************************)
(* TagSpec: the line read_stream of backup.py appends for a line it has    *)
(* read.  A line is the sequence of its characters.                        *)
(***************************************************************************)
Markers ==
  {<<"e", "r", "r", "o", "r">>,
   <<"e", "x", "c", "e", "p", "t", "i", "o", "n">>,
   <<"f", "a", "t", "a", "l">>}

Whitespace == {" ", "\n"}

(* Pieces of which the lines of the model are put together *)
Words ==
  {<<>>, <<" ">>, <<"o", "k">>, <<"E", "r", "r">>, <<"o", "r">>,
   <<"e", "r", "r", "o", "r">>, <<"E", "R", "R", "O", "R">>,
   <<"F", "a", "t", "a", "l">>,
   <<"e", "X", "c", "e", "p", "t", "i", "o", "n">>}

(* What stream.readline() returns: a line with its newline, or the last    *)
(* line of a stream that does not end in one                               *)
StreamLines ==
  {a \o b \o nl : a \in Words, b \in Words, nl \in {<<>>, <<"\n">>}} \ {<<>>}

(* the formatting of read_stream with the markers looked for in the line   *)
(* as it is                                                                *)
formatted_line_as_written(line, is_stderr) ==
  LET last == IF \E i \in 1..Len(line) : line[i] \notin Whitespace
              THEN CHOOSE i \in 1..Len(line) :
                     /\ line[i] \notin Whitespace
                     /\ \A k \in (i + 1)..Len(line) : line[k] \in Whitespace
              ELSE 0
      rstrip == SubSeq(line, 1, last)
  IN  IF is_stderr /\ Truthy(rstrip)
      THEN (IF \E err \in Markers : Substring(err, line)
            THEN <<"[ERROR] ">> ELSE <<"[WARN] ">>) \o rstrip
      ELSE rstrip

(* formatted_line = line.rstrip(); on stderr and if it is not empty, the   *)
(* prefix "[ERROR] " if any marker is in line.lower(), else "[WARN] "      *)
formatted_line(line, is_stderr) ==
  LET last == IF \E i \in 1..Len(line) : line[i] \notin Whitespace
              THEN CHOOSE i \in 1..Len(line) :
                     /\ line[i] \notin Whitespace
                     /\ \A k \in (i + 1)..Len(line) : line[k] \in Whitespace
              ELSE 0
      rstrip == SubSeq(line, 1, last)
      lower_char(c) ==
        CASE c = "A" -> "a" [] c = "C" -> "c" [] c = "E" -> "e" [] c = "F" -> "f"
          [] c = "I" -> "i" [] c = "L" -> "l" [] c = "N" -> "n" [] c = "O" -> "o"
          [] c = "P" -> "p" [] c = "R" -> "r" [] c = "T" -> "t" [] c = "X" -> "x"
          [] OTHER -> c
      lower == [i \in 1..Len(line) |-> lower_char(line[i])]
  IN  IF is_stderr /\ Truthy(rstrip)
      THEN (IF \E err \in Markers : Substring(err, lower)
            THEN <<"[ERROR] ">> ELSE <<"[WARN] ">>) \o rstrip
      ELSE rstrip

read_stream_format(line, is_stderr) ==
  /\ tagged' = [line |-> line, is_stderr |-> is_stderr,
                result |-> formatted_line(line, is_stderr)]
  /\ UNCHANGED <<job_vars, fs_vars, reaper_vars, sched_vars, poll_vars, pass_vars,
                 sized, extracted>>

TagInit == JobIdle /\ AuxIdle

TagNext == \E line \in StreamLines, is_stderr \in BOOLEAN : read_stream_format(line, is_stderr)

TagSpec == TagInit /\ [][TagNext]_vars

(***************************************************************************)
(* MountSpec: one dispatch of a mount job, with a mount process that can   *)
(* print as many lines as the poll loop of _mount_archive_thread reads, so *)
(* that the loop can end with the process still running.                   *)
(***************************************************************************)
MountRunner == "r1"

(* the borg mount process prints a line *)
mount_process_print(r) ==
  /\ job_type = "mount"
  /\ runner[r].proc = "alive"
  /\ Len(runner[r].pipe) + Len(runner[r].output) < MaxMountOut
  /\ \E l \in MountLines :
       runner' = [runner EXCEPT ![r].pipe = Append(@, l)]
  /\ UNCHANGED <<aux_vars, engine, job_type, status, completed_at, log_output, job_metadata, cancel, target, legacy_vars>>

MountInit == InitCitadel /\ job_type = "mount" /\ AuxIdle

MountNext ==
  \/ mount_archive(MountRunner)
  \/ mount_thread_start(MountRunner)
  \/ mount_thread_prepare(MountRunner)
  \/ mount_thread_spawn(MountRunner)
  \/ mount_process_print(MountRunner)
  \/ process_exit(MountRunner)
  \/ mount_thread_poll(MountRunner)
  \/ mount_thread_verify(MountRunner)
  \/ mount_thread_recheck(MountRunner)
  \/ mount_thread_except(MountRunner)
  \/ cancel_job_check
  \/ cancel_job_commit

MountSpec == MountInit /\ [][MountNext]_vars

(***************************************************************************)
(* Properties                                                              *)
(***************************************************************************)

(* A thread that has passed the start of its function and not returned *)
ActiveRunner(r) == runner[r].pc \notin {"idle", "load", "m_start", "u_start", "done"}

(* C1: the status changes only along created -> running and running ->    *)
(* success, failed or cancelled; a terminal status is never changed.       *)
C1_StatusTransitions ==
  [][status' # status =>
       \/ status = "created" /\ status' = "running"
       \/ status = "running" /\ status' \in Terminal]_vars

(* C2: completed_at is set if and only if the status is terminal. *)
C2_CompletedIffTerminal ==
  (completed_at # "null") <=> (status \in Terminal)

(* C3: log_output is append-only: before every step it is a prefix of     *)
(* what it is after the step.                                              *)
C3_LogAppendOnly ==
  [][IsPrefix(log_output, log_output')]_vars

(* C4: no job is cancelled while a process it started is still running. *)
C4_CancelledProcessDead ==
  status = "cancelled" => \A r \in Runners : runner[r].proc # "alive"

(* C5: a cancel request on a job that is not running is rejected and      *)
(* writes nothing: status, completed_at and log_output stay as they are    *)
(* and the handler does not go on to its commit.                           *)
C5_CancelRejected ==
  [][(cancel'.count = cancel.count + 1 /\ status # "running") =>
       /\ cancel'.result = "rejected"
       /\ cancel'.pc = "idle"
       /\ status' = status
       /\ completed_at' = completed_at
       /\ log_output' = log_output]_vars

(* C5 witness: the second cancel of a job that is already cancelled has   *)
(* been rejected.                                                          *)
C5_SecondCancelRejected ==
  /\ cancel.count = 2
  /\ cancel.result = "rejected"
  /\ status = "cancelled"
  /\ Contains(log_output, CancelNote)

(* C6: at most one thread is the active runner of the job. *)
C6_SingleRunner ==
  Cardinality({r \in Runners : ActiveRunner(r)}) <= 1

(* C7: a job that is running eventually reaches a terminal status. *)
C7_EventuallyTerminal ==
  (status = "running") ~> (status \in Terminal)

(* C8: the finalization of a command that timed out leaves the job failed *)
(* with the timeout noted in log_output and the process not running.       *)
C8_TimeoutNoted ==
  [][\A r \in Runners :
       (runner[r].timed_out /\ runner[r].pc = "finalize" /\ runner'[r].pc = "done") =>
         /\ status' = "failed"
         /\ Contains(log_output', TimeoutNote)
         /\ runner'[r].proc # "alive"]_vars

(* The finalization of r is about to run the extractor on output of a     *)
(* create or prune command that exited zero, and the extractor raises.     *)
ExtractionFails(r) ==
  /\ job_type \in StatsKinds
  /\ runner[r].exit_code = 0
  /\ \/ /\ runner[r].pc = "finalize"
        /\ extract_stats_from_output(runner[r].output).raised
     \/ /\ runner[r].pc = "l_finalize"
        /\ Truthy(runner[r].job_log)
        /\ legacy_extract_stats_from_output(runner[r].job_log).raised

(* C9: when the stats extraction fails on a command that exited zero the  *)
(* job is finalized as success, with metadata.stats_error set and the      *)
(* captured output kept.                                                   *)
C9_StatsFailureKeepsVerdict ==
  [][\A r \in Runners :
       (ExtractionFails(r) /\ runner'[r].pc = "done") =>
         /\ status' = "success"
         /\ job_metadata'.stats_error
         /\ IsPrefix(log_output, log_output')]_vars

(* C10: metadata.stats is written only by a step that finalizes a create  *)
(* or prune job as success.                                                *)
C10_StatsOnlyOnSuccess ==
  [][job_metadata'.stats # job_metadata.stats =>
       job_type \in StatsKinds /\ status' = "success"]_vars

(* C11: a step of the mount poll loop that finds the mount process exited  *)
(* marks the job failed, whatever the exit code, with the captured output  *)
(* as log_output, and does not go on to the directory verification.        *)
C11_ExitedMountFails ==
  [][\A r \in Runners :
       (runner[r].pc = "m_poll" /\ runner[r].proc = "exited" /\ runner'[r].pc # "m_poll") =>
         /\ runner'[r].pc = "done"
         /\ status' = "failed"
         /\ log_output' = runner'[r].output]_vars

(* C12: the step that ends an unmount thread after the unmount steps marks *)
(* the job success only if the mount point is no longer mounted, and       *)
(* failed if it still is.                                                  *)
C12_UnmountVerdictFollowsMountTable ==
  [][\A r \in Runners :
       (runner[r].pc \in {"u_finish", "u_except"} /\ runner'[r].pc = "done") =>
         /\ status' = "success" => ~target'.mounted
         /\ target'.mounted => status' = "failed"]_vars

(* C13: an unmount thread that finds no process for the recorded pid goes  *)
(* on to the unmount tools without failing the job, and when it has        *)
(* finished the mount job's record has mount_status unmounted and is not   *)
(* in the list of active mounts.                                           *)
C13_GonePidStillUnmounts ==
  [][\A r \in Runners :
       /\ (/\ runner[r].pc = "u_signal" /\ runner'[r].pc # "u_signal"
           /\ runner[r].metadata.mount_pid /\ ~target.alive) =>
             runner'[r].pc = "u_fusermount" /\ status' = status
       /\ (runner[r].pid_gone /\ runner[r].pc = "u_finish" /\ runner'[r].pc = "done") =>
             target'.mount_status = "unmounted" /\ ~get_all_active_mounts']_vars

(* C14: check_mount_status returns true only for a path that exists and is *)
(* itself a mount point of the mount table; not for a directory that is    *)
(* not mounted, whatever else is mounted.                                  *)
C14_MountedOnlyIfInMountTable ==
  [][\A p \in Paths :
       (checked' # checked /\ checked'.path = p /\ checked'.result) =>
         p \in dirs /\ p \in mtab]_vars

(* A mount job that get_all_active_mounts lists *)
ActiveMount(j) == mjobs[j].stored /\ mjobs[j].status = "success" /\ mjobs[j].mounted

(* C15: get_orphaned_mounts returns exactly the active mounts whose        *)
(* timestamp is more than max_age_hours before now: with 24 hours a mount  *)
(* of 25 hours ago is returned and a mount of one hour ago is not.         *)
C15_OrphanedExactlyOlder ==
  [][(called' # called /\ called'.fn = "get_orphaned_mounts") =>
       /\ called'.result =
            {j \in MountIds : /\ ActiveMount(j)
                              /\ mjobs[j].timestamp.kind = "datetime"
                              /\ utcnow - mjobs[j].timestamp.t > called'.max_age_hours}
       /\ called'.max_age_hours = 24 =>
            \A j \in MountIds :
              /\ (ActiveMount(j) /\ mjobs[j].timestamp = datetime(utcnow - 25)) =>
                    j \in called'.result
              /\ mjobs[j].timestamp = datetime(utcnow - 1) => j \notin called'.result]_vars

(* C15 witness: get_orphaned_mounts(24) has returned a mount of 25 hours   *)
(* ago and left out an active mount of one hour ago.                       *)
C15_OldReturnedYoungExcluded ==
  /\ called.fn = "get_orphaned_mounts" /\ called.max_age_hours = 24
  /\ \E i, j \in MountIds :
       /\ mjobs[i].timestamp = datetime(utcnow - 25) /\ i \in called.result
       /\ ActiveMount(j) /\ mjobs[j].timestamp = datetime(utcnow - 1)
       /\ j \notin called.result

C17_OneUnmountJobPerOrphan ==
  [][(called' # called /\ called'.fn = "unmount_orphaned") =>
       LET added == SubSeq(ujobs', Len(ujobs) + 1, Len(ujobs'))
       IN  /\ IsPrefix(ujobs, ujobs')
           /\ \A j \in MountIds :
                Cardinality({k \in 1..Len(added) : added[k].mount_job_id = j}) =
                  IF j \in called'.result THEN 1 ELSE 0
           /\ \A k \in 1..Len(added) :
                /\ added[k].job_type = "unmount"
                /\ added[k].reason # ""
                /\ called'.force => added[k].started
                /\ ~called'.force => added[k].status = "created" /\ ~added[k].started]_vars

(* C18: the cleanup runs on two triggers only: at every multiple of the    *)
(* configured interval after the start, and once at the start; the job of  *)
(* the start never runs a second time.                                     *)
C18_StartupTriggerFiresOnce ==
  [][\A j \in SchedJobs :
       runs'[j] # runs[j] =>
         \/ /\ j = "mount_cleanup"
            /\ clock > 0
            /\ clock % mount_scheduler.interval[j] = 0
         \/ /\ j = "mount_cleanup_startup"
            /\ runs[j] = 0]_vars

(* C19: a status request with offset k is answered with log_output from    *)
(* position k on, which is nothing when k is the length of log_output or   *)
(* more; and after every poll of a client that asks with the length it has *)
(* received, what it has received is log_output, no character twice.       *)
C19_OffsetReturnsRest ==
  [][/\ answer' # answer =>
          answer'.log_output =
            IF answer'.offset >= Len(log_output) THEN <<>>
            ELSE [i \in 1..(Len(log_output) - answer'.offset) |->
                    log_output[answer'.offset + i]]
     /\ received' # received => received' = log_output]_vars

(* What a run has written: the job record and the log lines *)
Written(r) ==
  [status |-> r.status, log_output |-> r.log_output, metadata |-> r.metadata,
   lines |-> r.lines]

(* C20 as stated: two runs that differ only in the passphrase write the    *)
(* same job record and the same log lines.                                 *)
C20_PassphraseDoesNotShow ==
  Written(pair[1]) = Written(pair[2])

(* C20 as amended: two runs that differ only in the passphrase, and whose  *)
(* borg processes print and exit alike, write the same job record and the  *)
(* same log lines.                                                         *)
C20_SameProcessSameRecord ==
  pair[1].process = pair[2].process => Written(pair[1]) = Written(pair[2])

(* C20 witness: both runs have run borg on an encrypted repository with    *)
(* different passphrases in the environment, and are done.                 *)
C20_BothRanEncrypted ==
  /\ repository.encryption
  /\ \A i \in TwoRuns : pair[i].pc = "done" /\ pair[i].process.ran
  /\ \A i \in TwoRuns : pair[i].env = <<"BORG_PASSPHRASE", pair[i].passphrase>>
  /\ pair[1].passphrase # pair[2].passphrase
  /\ pair[1].process = pair[2].process

(* C21: the step that makes the status terminal leaves captured output     *)
(* with it: log_output is not empty or the metadata holds an error, also   *)
(* when the process printed nothing.                                       *)
C21_TerminalJobExplained ==
  [][(status \notin Terminal /\ status' \in Terminal) =>
       (Truthy(log_output') \/ job_metadata'.stats_error)]_vars

(* C22: no operation takes a mount job's row out of the jobs table while   *)
(* its mount point is mounted, and after every step each successful mount *)
(* job whose mount point is mounted is listed by get_all_active_mounts.    *)
C22_LiveMountStaysTracked ==
  [][\A j \in MountIds :
       /\ (mjobs[j].stored /\ ~mjobs'[j].stored) => ~mjobs[j].mounted
       /\ (mjobs'[j].status = "success" /\ mjobs'[j].mounted) =>
            \E m \in active_mounts' : m.job_id = j]_vars

(* base_dir without a closing "/" *)
BaseName(base_dir) ==
  IF base_dir[Len(base_dir)] = "/"
  THEN SubSeq(base_dir, 1, Len(base_dir) - 1) ELSE base_dir

(* p is below the directory base_dir *)
UnderBase(p, base_dir) == IsPrefix(BaseName(base_dir) \o <<"/">>, p)

(* p is below the directory base_dir or is the directory *)
InBase(p, base_dir) == p = BaseName(base_dir) \/ UnderBase(p, base_dir)

(* C23: force_unmount_all has an entry for every mount point under the     *)
(* base directory, touches and reports no mount point outside it (not one  *)
(* that only shares the characters of the base directory), and reports     *)
(* "unmounted" only for a mount point that is no mount point afterwards.   *)
C23_ForceUnmountOnlyUnderBase ==
  [][forced' # forced =>
       /\ \A m \in mtab : UnderBase(m, forced'.base_dir) =>
             \E e \in forced'.results : e.mount_point = m
       /\ \A e \in forced'.results :
             /\ InBase(e.mount_point, forced'.base_dir)
             /\ e.status = "unmounted" => e.mount_point \notin mtab'
       /\ \A m \in mtab \ mtab' : InBase(m, forced'.base_dir)]_vars

(* k of a unit: B 0, KB 1, MB 2, GB 3, TB 4 *)
Exponent(unit) == (CHOOSE k \in 1..Len(Units) : Units[k] = unit) - 1

(* C24: every size parser maps "<value> <unit>" with a unit of B, KB, MB,  *)
(* GB, TB to value * 1024^k bytes; "1.00 GB" gives 1073741824 and          *)
(* "500.00 MB" gives 524288000.                                            *)
C24_SizeIsValueTimesPowerOf1024 ==
  [][(sized' # sized /\ \E k \in 1..Len(Units) : sized'.size_str.unit = Units[k]) =>
       /\ sized'.result.num =
            TimesPow(float(sized'.size_str.value), Exponent(sized'.size_str.unit))
       /\ sized'.size_str = [value |-> 100, unit |-> "GB"] =>
            sized'.result.num = Num(1073741824)
       /\ sized'.size_str = [value |-> 50000, unit |-> "MB"] =>
            sized'.result.num = Num(524288000)]_vars

(* Exact arithmetic for the ratios: a number in hundredths, as its digits  *)
(* to the base 1024, and the product of two of them                        *)
Wide == 1..(2 * NumDigits + 2)

Hundredths(x) ==
  [i \in Wide |-> IF i \in Places THEN TimesInt(x, 100).digits[i] ELSE 0]

RECURSIVE Conv(_, _, _, _)
Conv(a, b, k, i) == IF i = 0 THEN 0 ELSE a[i] * b[k + 1 - i] + Conv(a, b, k, i - 1)

RECURSIVE MulCarry(_, _, _)
MulCarry(a, b, k) ==
  IF k = 0 THEN 0 ELSE (Conv(a, b, k, k) + MulCarry(a, b, k - 1)) \div 1024

Mul(a, b) == [k \in Wide |-> (Conv(a, b, k, k) + MulCarry(a, b, k - 1)) % 1024]

(* a / b = c / d *)
SameQuotient(a, b, c, d) ==
  Mul(Hundredths(a), Hundredths(d)) = Mul(Hundredths(c), Hundredths(b))

(* The sizes of the "This archive:" row of an output, in bytes *)
RowOf(output) == LastOf(output, "this_archive")

RowBytes(output, i) ==
  LET size_str == RowOf(output)[1].row[i]
  IN  TimesPow(float(size_str.value), Exponent(upper(size_str.unit)))

RatioIs(stats, name, output, i) ==
  \A e \in stats :
    e.key.name = name =>
      /\ RowOf(output) # <<>>
      /\ Positive(RowBytes(output, i))
      /\ e.value.type = "float"
      /\ SameQuotient(e.value.num, e.value.den, RowBytes(output, 1), RowBytes(output, i))

(* C25: an extracted compression ratio is original / compressed and a      *)
(* deduplication ratio original / deduplicated (1073741824 and 536870912   *)
(* give 2.0); a ratio is there only with both sizes and a denominator      *)
(* that is not 0, and is not there when the denominator is 0.              *)
C25_RatioIsOriginalOverOther ==
  [][(extracted' # extracted /\ ~extracted'.result.raised) =>
       LET stats == extracted'.result.stats
           output == extracted'.output
       IN  /\ RatioIs(stats, "compression_ratio", output, 2)
           /\ RatioIs(stats, "deduplication_ratio", output, 3)
           /\ \A e \in stats :
                (/\ e.key.name = "compression_ratio"
                 /\ RowBytes(output, 1) = Num(1073741824)
                 /\ RowBytes(output, 2) = Num(536870912)) =>
                  e.value.num = TimesInt(e.value.den, 2)
           /\ (RowOf(output) # <<>> /\ RowBytes(output, 2) = Zero) =>
                \A e \in stats : e.key.name # "compression_ratio"
           /\ (RowOf(output) # <<>> /\ RowBytes(output, 3) = Zero) =>
                \A e \in stats : e.key.name # "deduplication_ratio"]_vars

(* C26: after a create job in mock mode has reached success, the stats of  *)
(* its metadata hold the compressed size of this archive as a number.      *)
C26_MockCreateHasNumericCompressedSize ==
  [][(extracted' # extracted /\ extracted'.job_status = "success") =>
       \E e \in extracted'.result.stats :
         /\ e.key \in {Key("this_archive_compressed_size"), Key("compressed_size")}
         /\ e.value.type \in {"int", "float"}]_vars

(* C27: extracting from an output whose block lines, delimiters included,  *)
(* start with "[WARN] " gives the fields and values of extracting from the *)
(* same output without them.                                               *)
C27_WarnPrefixMakesNoDifference ==
  [][(extracted' # extracted /\ HasWarnDash(extracted'.output)) =>
       extracted'.result = Extract(extracted'.extractor, Unwarn(extracted'.output))]_vars

(* The lines the readers write: the lines of a process as read_stream      *)
(* formats them                                                            *)
ReaderLines == {FormatLine(l, e) : l \in ProcessLines, e \in BOOLEAN}

(* C28: the append of a reader adds its line at the end of log_output and  *)
(* keeps, in their order, the lines the readers have written before: no    *)
(* interleaving of the two readers loses a line.                           *)
C28_ReaderAppendLosesNoLine ==
  [][\A s \in Streams :
       (reader[s].pc = "append" /\ reader'[s].pc = "readline") =>
         /\ log_output'[Len(log_output')] = FormatLine(reader[s].line, s = "stderr")
         /\ \A i \in 1..Len(log_output) :
              log_output[i] \in ReaderLines =>
                /\ i < Len(log_output')
                /\ log_output'[i] = log_output[i]]_vars

(* C29: run_borg_command writes completed_at and the terminal status only  *)
(* after the process has exited and both readers have ended, and no reader *)
(* appends to log_output once the status is terminal.                      *)
C29_FinalizedAfterReaders ==
  [][/\ \A r \in Runners :
          (runner[r].pc = "l_finalize" /\ runner'[r].pc = "done") =>
            /\ runner[r].proc = "exited"
            /\ \A s \in Streams : reader[s].pc = "eof"
     /\ \A s \in Streams :
          (reader[s].pc = "append" /\ reader'[s].pc = "readline") =>
            status \notin Terminal]_vars

(* A mount thread that has started its process and not returned: it waits  *)
(* in the poll loop or for the listing, or an exception has taken it to    *)
(* the except clause                                                       *)
AfterSpawn(r) ==
  /\ job_type = "mount"
  /\ runner[r].proc # "none"
  /\ runner[r].pc \in {"m_poll", "m_verify", "m_recheck", "m_except"}

(* C30: the step that starts the mount process commits its pid with        *)
(* mount_status mounting, before the poll loop; whenever a mount thread    *)
(* waits or is in its except clause after the spawn, the stored metadata   *)
(* hold the pid.                                                           *)
C30_PidStoredBeforePolling ==
  [][\A r \in Runners :
       /\ (runner[r].pc = "m_spawn" /\ runner'[r].proc = "alive") =>
            job_metadata'.mount_pid /\ job_metadata'.mount_status = "mounting"
       /\ AfterSpawn(r)' => job_metadata'.mount_pid]_vars

(* A mount thread waits in the poll loop for a line of its live process,   *)
(* and the stored metadata hold the pid with mount_status mounting         *)
C30_WaitingWithPidStored ==
  \E r \in Runners :
    /\ AfterSpawn(r) /\ runner[r].pc = "m_poll"
    /\ runner[r].proc = "alive" /\ runner[r].pipe = <<>>
    /\ job_metadata.mount_pid /\ job_metadata.mount_status = "mounting"

(* The step of a mount thread that commits "Mount successful"              *)
MountedStep(r) ==
  /\ runner'[r].pc = "done"
  /\ status' = "success"
  /\ job_metadata'.mount_status = "mounted"
  /\ log_output'[Len(log_output')] = MountSuccessNote

(* The step of a mount thread that commits the failure of an empty mount   *)
(* point, its process no longer running                                    *)
EmptyFailedStep(r) ==
  /\ runner'[r].pc = "done"
  /\ status' = "failed"
  /\ log_output'[Len(log_output')] = MountEmptyNote
  /\ runner'[r].proc # "alive"

(* C31: after the poll loop the mount thread lists the mount point; a      *)
(* listing with content ends the job as success with mount_status mounted, *)
(* an empty one leads to one more listing and no further one, after which  *)
(* content ends the job the same way and an empty directory ends it as     *)
(* failed with the mount process terminated.                               *)
C31_ListingDecidesAfterOneRecheck ==
  [][\A r \in Runners :
       /\ (runner[r].pc = "m_verify" /\ runner'[r].pc # "m_verify") =>
            \/ MountedStep(r)
            \/ runner'[r].pc \in {"m_recheck", "m_except"} /\ status' = status
       /\ (runner[r].pc = "m_recheck" /\ runner'[r].pc # "m_recheck") =>
            \/ MountedStep(r)
            \/ EmptyFailedStep(r)
            \/ runner'[r].pc = "m_except" /\ status' = status]_vars

(* A mount job has failed on the second empty listing, and the process the *)
(* thread had started alive has been terminated                            *)
C31_EmptyTwiceFailedAndTerminated ==
  \E r \in Runners :
    /\ runner[r].pc = "done" /\ runner[r].proc = "killed"
    /\ runner[r].i = PollBudget
    /\ status = "failed"
    /\ log_output # <<>> /\ log_output[Len(log_output)] = MountEmptyNote

(* C32: in the unmount thread no failing step ends the sequence: the       *)
(* signal step is followed by fusermount; a fusermount that did not        *)
(* unmount, whether it failed, timed out or is absent, is followed by      *)
(* umount; and umount, whatever it did, is followed by the update of the   *)
(* job.                                                                    *)
C32_FailedStepDoesNotAbort ==
  [][\A r \in Runners :
       /\ (runner[r].pc = "u_signal" /\ runner'[r].pc # "u_signal") =>
            runner'[r].pc = "u_fusermount"
       /\ (runner[r].pc = "u_fusermount" /\ runner'[r].pc # "u_fusermount") =>
            \/ runner'[r].pc = "u_umount"
            \/ runner'[r].pc = "u_finish" /\ target.mounted /\ ~target'.mounted
       /\ (runner[r].pc = "u_umount" /\ runner'[r].pc # "u_umount") =>
            runner'[r].pc = "u_finish"]_vars

(* C33: the thread of an unmount job that unmount_orphaned created finds   *)
(* the pid of the mount process in the metadata of the job and signals the *)
(* process before it goes on to the unmount tools.                         *)
C33_ReaperUnmountSignalsMountProcess ==
  [][\A k \in 1..Len(ujobs) :
       (k <= Len(ujobs') /\ ujobs[k].pc = "signal" /\ ujobs'[k].pc = "unmount") =>
         ujobs'[k].signalled]_vars

(* The two cases of a letter *)
CasePairs ==
  {<<"a", "A">>, <<"c", "C">>, <<"e", "E">>, <<"f", "F">>, <<"i", "I">>, <<"l", "L">>,
   <<"n", "N">>, <<"o", "O">>, <<"p", "P">>, <<"r", "R">>, <<"t", "T">>, <<"x", "X">>}

(* The line holds the marker, each letter in either case *)
HoldsMarker(line, marker) ==
  \E i \in 0..(Len(line) - Len(marker)) :
    \A k \in 1..Len(marker) :
      line[i + k] = marker[k] \/ <<marker[k], line[i + k]>> \in CasePairs

(* The line without the white space at its end *)
Stripped(line) ==
  CHOOSE t \in {SubSeq(line, 1, n) : n \in 0..Len(line)} :
    /\ \A k \in (Len(t) + 1)..Len(line) : line[k] \in Whitespace
    /\ t # <<>> => t[Len(t)] \notin Whitespace

(* C34: read_stream appends a line of stderr that is not empty with the    *)
(* prefix "[ERROR] " if and only if it holds error, exception or fatal in  *)
(* any letter case, and with "[WARN] " otherwise; a line of stdout and an  *)
(* empty line are appended without a prefix.                               *)
C34_SeverityPrefixFollowsMarkers ==
  [][tagged' # tagged =>
       LET line == tagged'.line
           text == Stripped(line)
       IN  tagged'.result =
             IF ~tagged'.is_stderr \/ text = <<>> THEN text
             ELSE IF \E marker \in Markers : HoldsMarker(line, marker)
             THEN <<"[ERROR] ">> \o text
             ELSE <<"[WARN] ">> \o text]_vars

(* A line of stderr with a marker in capitals has been given the prefix    *)
(* "[ERROR] "                                                              *)
C34_CapitalMarkerTaggedError ==
  /\ tagged.is_stderr
  /\ tagged.line = <<"E", "R", "R", "O", "R", "\n">>
  /\ tagged.result = <<"[ERROR] ", "E", "R", "R", "O", "R">>

(* C35: a run of cleanup_orphaned_mounts with AUTO_UNMOUNT_ORPHANED off    *)
(* adds no unmount job and changes no job; with it on, the run adds what   *)
(* unmount_orphaned adds with force = False: one unmount job for each      *)
(* orphaned mount, none of them started.                                   *)
C35_CleanupHonoursAutoUnmount ==
  [][called'.fn = "cleanup_orphaned_mounts" =>
       /\ (called' # called /\ ~called'.auto_unmount) =>
            ujobs' = ujobs /\ mjobs' = mjobs
       /\ Len(ujobs') > Len(ujobs) =>
            LET orphaned == JobIds(called'.result)
            IN  /\ called'.auto_unmount
                /\ called'.result = {mount.job_id :
                                       mount \in get_orphaned_mounts(called'.max_age_hours)}
                /\ ujobs' = ujobs \o [k \in 1..Len(orphaned) |->
                                         UnmountJob(orphaned[k], FALSE)]
                /\ mjobs' = mjobs]_vars

(* The cleanup has run with AUTO_UNMOUNT_ORPHANED off and has found an     *)
(* orphaned mount, and there is no unmount job                             *)
C35_DisabledCleanupFoundOrphan ==
  /\ called.fn = "cleanup_orphaned_mounts"
  /\ ~called.auto_unmount
  /\ called.result # {}
  /\ ujobs = <<>>

(* C36: however often unmount_orphaned and the cleanup run, a mount job    *)
(* has at most one unmount job whose status is not terminal.               *)
C36_OneOpenUnmountJobPerMount ==
  \A j \in MountIds :
    Cardinality({k \in 1..Len(ujobs) :
                   ujobs[k].mount_job_id = j /\ ujobs[k].status \notin Terminal}) <= 1

(* C37: when a mount thread has returned with its job failed after it had  *)
(* started the mount process, the process is not running.                  *)
C37_FailedMountLeavesNoProcess ==
  \A r \in Runners :
    (job_type = "mount" /\ runner[r].pc = "done" /\ status = "failed") =>
      runner[r].proc # "alive"

(* C38: for a schedule with auto_prune the prune job exists only when the  *)
(* create job of the run has status success, and when the create job has   *)
(* reached success the prune job is eventually added and dispatched.       *)
C38_PruneFollowsSuccessfulBackup ==
  /\ [](schedule.prune_job # "none" => schedule.auto_prune /\ status = "success")
  /\ (schedule.auto_prune /\ status = "success") ~> (schedule.prune_job = "running")
====
